---- MODULE Spec2Model ----
(***************************************************************************)
(* MCPSquared: the phase pipeline (install, discover, create workflows,   *)
(* create agent configs) over a file system and MCP sessions, the         *)
(* orchestrator's outcome classification, and the namespacing transform.  *)
(*                                                                         *)
(* Strings are sequences of tokens; "_" is a token of its own, so that    *)
(* str.split("__") and str.rsplit("_", 2) act on the model as on text.    *)
(* Python's None is the empty option <<>>, a present value v is <<v>>.    *)
(* The file system is a map from paths to file contents plus a set of     *)
(* directories; a path is a string with "/" as a token of its own.        *)
(***************************************************************************)
EXTENDS Naturals, Sequences, FiniteSets, TLC

VARIABLES WORK_DIR, now, calls, files, dirs, open_sessions, last, synthesized,
          discovered, writers, environ, server_pc, registered, delegated_runs

vars == <<WORK_DIR, now, calls, files, dirs, open_sessions, last, synthesized,
          discovered, writers, environ, server_pc, registered, delegated_runs>>

\* the processes writing a descriptor file, and the phase tools server process
\* with its environment
process_vars == <<writers, environ, server_pc, registered, delegated_runs>>

\* ------------------------------------------------------------------ bounds

MaxCalls == 3
MaxTime == 1
MaxTools == 2
MaxNameLen == 3
MaxTranscriptLen == 3
MaxBucketTools == 4
MaxLongTools == 12
MaxWorkflowFiles == 3
MaxReplyLen == 4
MaxWriters == 3
MaxClassified == 2

\* ------------------------------------------------------------- str helpers

None == <<>>
Some(v) == <<v>>
IsNone(o) == o = <<>>
Val(o) == o[1]

\* f"{x}" of an optional string: None formats as the text None
Str(o) == IF IsNone(o) THEN <<"None">> ELSE Val(o)

Range(s) == {s[i] : i \in DOMAIN s}

SeqsUpTo(S, n) == UNION {[1..k -> S] : k \in 0..n}

Take(s, n) == SubSeq(s, 1, IF Len(s) < n THEN Len(s) ELSE n)

\* the positions at which pat occurs in s as a contiguous run
Occurrences(s, pat) ==
  {i \in 1..(Len(s) + 1) : i + Len(pat) - 1 <= Len(s)
                           /\ SubSeq(s, i, i + Len(pat) - 1) = pat}

\* Python's  pat in s  for strings
Contains(s, pat) == Occurrences(s, pat) # {}

Min(S) == CHOOSE m \in S : \A k \in S : m <= k

\* Python's s.split(sep): left to right, non-overlapping
RECURSIVE Split(_, _)
Split(s, sep) ==
  IF ~Contains(s, sep) THEN <<s>>
  ELSE LET i == Min(Occurrences(s, sep))
       IN <<SubSeq(s, 1, i - 1)>> \o Split(SubSeq(s, i + Len(sep), Len(s)), sep)

\* --------------------------------------------------------------- exceptions

Exc(type, msg) == [type |-> type, msg |-> msg]

\* str(e)
StrExc(e) == e.msg

\* traceback.format_exc(): header line, a frame line quoting the file, the
\* exception line
format_exc(e) ==
  <<"Traceback (most recent call last):", "\n", "  File ", "\"", "module.py", "\"",
    ", line N", "\n", e.type, ": ">> \o e.msg \o <<"\n">>

\* ------------------------------------------------------------ descriptors

Names == {<<"svc">>, <<"db">>}
Commands == {<<"python">>}
ArgLists == {<<<<"server.py">>>>}

\* what a caller passes as (name, command, args); a missing field is None
Descriptors ==
  [name : {None} \cup {Some(n) : n \in Names},
   command : {None} \cup {Some(c) : c \in Commands},
   args : {None} \cup {Some(a) : a \in ArgLists}]

required_fields == {"name", "command", "args"}

Missing(d) == \E f \in required_fields : IsNone(d[f])

\* MCPConfig(name=..., command=..., args=...): the descriptor object; transport
\* takes its default
MCPConfig(name, command, args) ==
  [name |-> name, command |-> command, args |-> args, transport |-> Some(<<"stdio">>)]

\* whether constructing the descriptor object raises: only a None field can be
\* rejected, and only by a model that declares the field required
ConstructionRaises(d, strict) == strict /\ Missing(d)

\* mcp_config.model_dump(): a dict holding every declared field
model_dump(cfg) == [k \in {"name", "command", "args", "transport"} |-> cfg[k]]

ConfigKeys == <<"name", "command", "args", "transport">>

\* json.dump of a flat dict: the key/value pairs in the dict's order
json_dump(d, keys) == [i \in 1..Len(keys) |-> <<keys[i], d[keys[i]]>>]

\* json.load: the dict of the pairs read
json_load(text) ==
  [k \in {text[i][1] : i \in DOMAIN text} |->
     text[CHOOSE i \in DOMAIN text : text[i][1] = k][2]]

_validate_mcp_config(config) == \A field \in required_fields : field \in DOMAIN config

_build_error_response(error_msg, traceback_info) ==
  IF IsNone(traceback_info)
  THEN [status |-> "error", error |-> error_msg]
  ELSE [status |-> "error", error |-> error_msg, traceback |-> Val(traceback_info)]

\* -------------------------------------------------------------- file system

\* Path(p).parent / os.path.dirname(p): the path up to its last separator
parent(p) ==
  LET seps == {i \in DOMAIN p : p[i] = "/"}
  IN IF seps = {} THEN <<>>
     ELSE SubSeq(p, 1, (CHOOSE i \in seps : \A j \in seps : j <= i) - 1)

\* the last component of a path
basename(p) ==
  LET seps == {i \in DOMAIN p : p[i] = "/"}
  IN IF seps = {} THEN p
     ELSE SubSeq(p, (CHOOSE i \in seps : \A j \in seps : j <= i) + 1, Len(p))

RECURSIVE Ancestors(_)
Ancestors(p) == IF parent(p) = <<>> THEN {} ELSE {parent(p)} \cup Ancestors(parent(p))

\* mkdir(parents=True, exist_ok=True) / os.makedirs(exist_ok=True)
makedirs(ds, p) == ds \cup {p} \cup Ancestors(p)

\* with open(path, 'w') as f: json.dump(...)
write_file(fs, path, text) ==
  [q \in DOMAIN fs \cup {path} |-> IF q = path THEN text ELSE fs[q]]

DEFAULT_WORK_DIR == <<"/tmp/mcpsquared">>

\* ------------------------------------------------- the remote service (stub)

add_item == <<"add", "_", "item">>
get_item == <<"get", "_", "item">>
search_docs == <<"search", "_", "docs">>

\* tool objects as list_tools returns them; description and inputSchema are
\* optional attributes
ToolObjects ==
  {[name |-> add_item, description |-> <<"Add an item">>, inputSchema |-> <<"object">>],
   [name |-> get_item],
   [name |-> search_docs, description |-> <<"Search the docs">>]}

ToolLists ==
  {l \in SeqsUpTo(ToolObjects, MaxTools) : \A i, j \in DOMAIN l : l[i] = l[j] => i = j}

\* one listing of each length
AllTools ==
  <<[name |-> add_item, description |-> <<"Add an item">>, inputSchema |-> <<"object">>],
    [name |-> get_item],
    [name |-> search_docs, description |-> <<"Search the docs">>]>>

Listings == {Take(AllTools, k) : k \in 0..MaxTools}

\* what the environment does to one call: the first step that fails (later
\* steps are not reached), whether close_all_sessions raises, and the tools
\* the service lists
Faults == {"none", "create_session", "list_tools", "write"}

NoExc == Exc("", <<>>)
CreateExc == Exc("ConnectionError", <<"could not start server">>)
ListExc == Exc("McpError", <<"tools/list failed">>)
WriteExc == Exc("OSError", <<"No space left on device">>)
CloseExc == Exc("RuntimeError", <<"close failed">>)
ConstructExc == Exc("ValidationError", <<"Input should be a valid string">>)
WorkDirExc == Exc("ValueError", <<"WORK_DIR environment variable not set">>)

\* client.close_all_sessions(): the client holds no session afterwards
close_all_sessions(held) == 0

\* how the close of one call ends: it completes, or it raises; a close that
\* raised may have dropped the session or left it open
CloseOutcomes == {"closed", "raises", "raises_open"}

CloseRaises(close) == close # "closed"

AfterClose(held, close) == IF close = "raises_open" THEN held ELSE close_all_sessions(held)

\* ---------------------------------------------------------------- phase 1

\* faulty variant of PrefixedName: the separator is one underscore
PrefixedName_single_separator(service_name, raw_name) ==
  <<"mcp", "_">> \o service_name \o <<"_">> \o raw_name

\* f"mcp__{name}__{tool.name}"
PrefixedName(service_name, raw_name) ==
  <<"mcp", "_", "_">> \o service_name \o <<"_", "_">> \o raw_name

\* the tools and schemas lists built from a listing
DiscoveredTools(name, listing) ==
  [i \in DOMAIN listing |-> PrefixedName(Str(name), listing[i].name)]

DiscoveredSchemas(name, listing) ==
  [i \in DOMAIN listing |->
     [name |-> PrefixedName(Str(name), listing[i].name),
      description |-> IF "description" \in DOMAIN listing[i]
                      THEN listing[i].description ELSE <<>>,
      parameters |-> IF "inputSchema" \in DOMAIN listing[i]
                     THEN listing[i].inputSchema ELSE <<>>]]

ToolsKeys == <<"mcp_name", "tools", "schemas">>

\* faulty variant of strftime: the time of day is left out
strftime_date_only(t) == <<"20250101">>

\* datetime.now().strftime("%Y%m%d_%H%M%S")
strftime(t) == <<"20250101", "_", ToString(t)>>

ProjectDir(work_dir, name, t) ==
  work_dir \o <<"/">> \o Str(name) \o <<"_project_">> \o strftime(t)

ToolsFile(project_dir, name) ==
  project_dir \o <<"/", "mcp_tools_">> \o Str(name) \o <<".json">>

ConfigFile(work_dir, name) ==
  work_dir \o <<"/", "mcp_configs", "/">> \o Str(name) \o <<"_config.json">>

\* the try / except / finally of the connection test: create_session is
\* called once; the session is held only if the call succeeded
_validate_config_and_test_connection(mcp_config, env) ==
  LET config_dict == model_dump(mcp_config) IN
  IF ~_validate_mcp_config(config_dict)
  THEN [raised |-> FALSE, exc |-> NoExc, is_valid |-> FALSE,
        message |-> <<"Invalid MCP configuration format">>, created |-> 0, open |-> 0]
  ELSE
    LET held == IF env.fault = "create_session" THEN 0 ELSE 1
        after == AfterClose(held, env.close)
    IN IF CloseRaises(env.close)
       THEN [raised |-> TRUE, exc |-> CloseExc, is_valid |-> FALSE, message |-> <<>>,
             created |-> 1, open |-> after]
       ELSE IF env.fault = "create_session"
       THEN [raised |-> FALSE, exc |-> NoExc, is_valid |-> FALSE,
             message |-> <<"Connection failed: ">> \o StrExc(CreateExc),
             created |-> 1, open |-> after]
       ELSE IF env.fault = "list_tools"
       THEN [raised |-> FALSE, exc |-> NoExc, is_valid |-> FALSE,
             message |-> <<"Connection failed: ">> \o StrExc(ListExc),
             created |-> 1, open |-> after]
       ELSE [raised |-> FALSE, exc |-> NoExc, is_valid |-> TRUE,
             message |-> <<"connection_tested: True, connection_resources: tool">>,
             created |-> 1, open |-> after]

_build_success_response(mcp_name) ==
  [status |-> "success", phase |-> "1.1", mcp_name |-> mcp_name,
   connection_tested |-> TRUE,
   message |-> <<"Successfully validated configuration for ">> \o Str(mcp_name) \o <<" MCP">>,
   config_validated |-> TRUE]

\* faulty variant of _save_mcp_config: args is left out of what is dumped
_save_mcp_config_without_args(mcp_config, work_dir, env, fs, ds) ==
  IF IsNone(work_dir)
  THEN [raised |-> TRUE, exc |-> WorkDirExc, files |-> fs, dirs |-> ds]
  ELSE
    LET mcp_configs_dir == Val(work_dir) \o <<"/", "mcp_configs">>
        config_file == ConfigFile(Val(work_dir), mcp_config.name)
        ds2 == makedirs(ds, mcp_configs_dir)
    IN IF env.fault = "write"
       THEN [raised |-> TRUE, exc |-> WriteExc, files |-> fs, dirs |-> ds2]
       ELSE [raised |-> FALSE, exc |-> NoExc,
             files |-> write_file(fs, config_file,
                                  json_dump(model_dump(mcp_config), <<"name", "command", "transport">>)),
             dirs |-> ds2]

\* raises when WORK_DIR is unset or the file cannot be written; the
\* directory is made before the file is opened
_save_mcp_config(mcp_config, work_dir, env, fs, ds) ==
  IF IsNone(work_dir)
  THEN [raised |-> TRUE, exc |-> WorkDirExc, files |-> fs, dirs |-> ds]
  ELSE
    LET mcp_configs_dir == Val(work_dir) \o <<"/", "mcp_configs">>
        config_file == ConfigFile(Val(work_dir), mcp_config.name)
        ds2 == makedirs(ds, mcp_configs_dir)
    IN IF env.fault = "write"
       THEN [raised |-> TRUE, exc |-> WriteExc, files |-> fs, dirs |-> ds2]
       ELSE [raised |-> FALSE, exc |-> NoExc,
             files |-> write_file(fs, config_file, json_dump(model_dump(mcp_config), ConfigKeys)),
             dirs |-> ds2]

Raised(e, created, open, fs, ds) ==
  [outcome |-> "raised", exc |-> e, result |-> [status |-> "none"],
   created |-> created, open |-> open, files |-> fs, dirs |-> ds]

Returned(r, created, open, fs, ds) ==
  [outcome |-> "returned", exc |-> NoExc, result |-> r,
   created |-> created, open |-> open, files |-> fs, dirs |-> ds]

\* faulty variant of phase1_1_install_mcp_tool: the descriptor is saved before
\* the connection is tested
phase1_1_install_mcp_tool_saving_first(d, strict, env, work_dir, fs, ds) ==
  IF ConstructionRaises(d, strict) THEN Raised(ConstructExc, 0, 0, fs, ds)
  ELSE
    LET mcp_config == MCPConfig(d.name, d.command, d.args)
        saved == _save_mcp_config(mcp_config, work_dir, env, fs, ds)
        v == _validate_config_and_test_connection(mcp_config, env)
    IN IF saved.raised
       THEN Returned(_build_error_response(<<"Phase 1.1 failed: ">> \o StrExc(saved.exc),
                                           Some(format_exc(saved.exc))),
                     0, 0, saved.files, saved.dirs)
       ELSE IF v.raised
       THEN Returned(_build_error_response(<<"Phase 1.1 failed: ">> \o StrExc(v.exc),
                                           Some(format_exc(v.exc))),
                     v.created, v.open, saved.files, saved.dirs)
       ELSE IF ~v.is_valid
       THEN Returned(_build_error_response(v.message, None), v.created, v.open,
                     saved.files, saved.dirs)
       ELSE Returned(_build_success_response(mcp_config.name),
                     v.created, v.open, saved.files, saved.dirs)

\* phase tier, phase 1.1: the descriptor object is built before the try
phase1_1_install_mcp_tool(d, strict, env, work_dir, fs, ds) ==
  IF ConstructionRaises(d, strict) THEN Raised(ConstructExc, 0, 0, fs, ds)
  ELSE
    LET mcp_config == MCPConfig(d.name, d.command, d.args)
        v == _validate_config_and_test_connection(mcp_config, env)
        saved == _save_mcp_config(mcp_config, work_dir, env, fs, ds)
    IN IF v.raised
       THEN Returned(_build_error_response(<<"Phase 1.1 failed: ">> \o StrExc(v.exc),
                                           Some(format_exc(v.exc))),
                     v.created, v.open, fs, ds)
       ELSE IF ~v.is_valid
       THEN Returned(_build_error_response(v.message, None), v.created, v.open, fs, ds)
       ELSE IF saved.raised
       THEN Returned(_build_error_response(<<"Phase 1.1 failed: ">> \o StrExc(saved.exc),
                                           Some(format_exc(saved.exc))),
                     v.created, v.open, saved.files, saved.dirs)
       ELSE Returned(_build_success_response(mcp_config.name),
                     v.created, v.open, saved.files, saved.dirs)

\* os.getenv("WORK_DIR", "/tmp/mcpsquared")
getenv_WORK_DIR(work_dir) == IF IsNone(work_dir) THEN DEFAULT_WORK_DIR ELSE Val(work_dir)

ErrorResult(e) == [status |-> "error", error |-> StrExc(e), traceback |-> format_exc(e)]

\* merged server, phase 1.1: connection test and save inside one try, the
\* close in its finally; an exception raised by the finally replaces the return
merged_phase1_1_install_mcp_tool(d, strict, env, work_dir, fs, ds) ==
  IF ConstructionRaises(d, strict) THEN Raised(ConstructExc, 0, 0, fs, ds)
  ELSE
    LET mcp_config == MCPConfig(d.name, d.command, d.args)
        held == IF env.fault = "create_session" THEN 0 ELSE 1
        after == AfterClose(held, env.close)
        mcp_configs_dir == getenv_WORK_DIR(work_dir) \o <<"/", "mcp_configs">>
        config_file == ConfigFile(getenv_WORK_DIR(work_dir), d.name)
        body ==
          IF env.fault = "create_session" THEN [r |-> ErrorResult(CreateExc), files |-> fs, dirs |-> ds]
          ELSE IF env.fault = "list_tools" THEN [r |-> ErrorResult(ListExc), files |-> fs, dirs |-> ds]
          ELSE IF env.fault = "write"
          THEN [r |-> ErrorResult(WriteExc), files |-> fs, dirs |-> makedirs(ds, mcp_configs_dir)]
          ELSE [r |-> [status |-> "success", phase |-> "1.1", mcp_name |-> d.name,
                       connection_tested |-> TRUE, tools_found |-> Len(env.listing)],
                files |-> write_file(fs, config_file, json_dump(model_dump(mcp_config), ConfigKeys)),
                dirs |-> makedirs(ds, mcp_configs_dir)]
    IN IF CloseRaises(env.close) THEN Raised(CloseExc, 1, after, body.files, body.dirs)
       ELSE Returned(body.r, 1, after, body.files, body.dirs)

\* faulty variant of _discover_real_mcp_tools: the close is the last statement
\* of the try body instead of a finally, so a failed listing skips it
_discover_real_mcp_tools_without_finally(mcp_config, env) ==
  LET held == IF env.fault = "create_session" THEN 0 ELSE 1
      after == IF env.fault = "list_tools" THEN held ELSE AfterClose(held, env.close)
      tools_data == [mcp_name |-> mcp_config.name,
                     tools |-> DiscoveredTools(mcp_config.name, env.listing),
                     schemas |-> DiscoveredSchemas(mcp_config.name, env.listing)]
  IN IF env.fault = "create_session"
     THEN [raised |-> TRUE, exc |-> CreateExc, tools_data |-> tools_data, created |-> 1, open |-> after]
     ELSE IF env.fault = "list_tools"
     THEN [raised |-> TRUE, exc |-> ListExc, tools_data |-> tools_data, created |-> 1, open |-> after]
     ELSE IF CloseRaises(env.close)
     THEN [raised |-> TRUE, exc |-> CloseExc, tools_data |-> tools_data, created |-> 1, open |-> after]
     ELSE [raised |-> FALSE, exc |-> NoExc, tools_data |-> tools_data, created |-> 1, open |-> after]

\* the session is created and the tools listed inside a try whose finally
\* closes the client; no except clause, so failures propagate
_discover_real_mcp_tools(mcp_config, env) ==
  LET held == IF env.fault = "create_session" THEN 0 ELSE 1
      after == AfterClose(held, env.close)
      tools_data == [mcp_name |-> mcp_config.name,
                     tools |-> DiscoveredTools(mcp_config.name, env.listing),
                     schemas |-> DiscoveredSchemas(mcp_config.name, env.listing)]
  IN IF CloseRaises(env.close)
     THEN [raised |-> TRUE, exc |-> CloseExc, tools_data |-> tools_data, created |-> 1, open |-> after]
     ELSE IF env.fault = "create_session"
     THEN [raised |-> TRUE, exc |-> CreateExc, tools_data |-> tools_data, created |-> 1, open |-> after]
     ELSE IF env.fault = "list_tools"
     THEN [raised |-> TRUE, exc |-> ListExc, tools_data |-> tools_data, created |-> 1, open |-> after]
     ELSE [raised |-> FALSE, exc |-> NoExc, tools_data |-> tools_data, created |-> 1, open |-> after]

\* the timestamped project directory is made, then the tools file written
_save_tools_data(mcp_name, tools_data, t, work_dir, env, fs, ds) ==
  IF IsNone(work_dir)
  THEN [raised |-> TRUE, exc |-> WorkDirExc, files |-> fs, dirs |-> ds, file_path |-> <<>>]
  ELSE
    LET project_dir == ProjectDir(Val(work_dir), mcp_name, t)
        file_path == ToolsFile(project_dir, mcp_name)
        ds2 == makedirs(ds, project_dir)
    IN IF env.fault = "write"
       THEN [raised |-> TRUE, exc |-> WriteExc, files |-> fs, dirs |-> ds2, file_path |-> file_path]
       ELSE [raised |-> FALSE, exc |-> NoExc,
             files |-> write_file(fs, file_path, json_dump(tools_data, ToolsKeys)),
             dirs |-> ds2, file_path |-> file_path]

\* phase tier, phase 1.2
phase1_2_list_mcp_tools_tool(d, strict, env, t, work_dir, fs, ds) ==
  IF ConstructionRaises(d, strict) THEN Raised(ConstructExc, 0, 0, fs, ds)
  ELSE
    LET mcp_config == MCPConfig(d.name, d.command, d.args)
        disc == _discover_real_mcp_tools(mcp_config, env)
        tools_data == disc.tools_data
        saved == _save_tools_data(mcp_config.name, tools_data, t, work_dir, env, fs, ds)
    IN IF disc.raised
       THEN Returned(_build_error_response(<<"Phase 1.2 failed: ">> \o StrExc(disc.exc),
                                           Some(format_exc(disc.exc))),
                     disc.created, disc.open, fs, ds)
       ELSE IF saved.raised
       THEN Returned(_build_error_response(<<"Phase 1.2 failed: ">> \o StrExc(saved.exc),
                                           Some(format_exc(saved.exc))),
                     disc.created, disc.open, saved.files, saved.dirs)
       ELSE Returned([status |-> "success", phase |-> "1.2", mcp_name |-> mcp_config.name,
                      tools_count |-> Len(tools_data.tools),
                      tools |-> Take(tools_data.tools, 5),
                      schemas |-> Take(tools_data.schemas, 3),
                      tools_file_path |-> saved.file_path,
                      message |-> <<"Discovered ", ToString(Len(tools_data.tools)),
                                    " REAL tools from ">> \o Str(mcp_config.name)],
                     disc.created, disc.open, saved.files, saved.dirs)

\* merged server, phase 1.2: listing, namespacing and the write inside one
\* try, the close in its finally
merged_phase1_2_list_mcp_tools_tool(d, strict, env, t, work_dir, fs, ds) ==
  IF ConstructionRaises(d, strict) THEN Raised(ConstructExc, 0, 0, fs, ds)
  ELSE
    LET held == IF env.fault = "create_session" THEN 0 ELSE 1
        after == AfterClose(held, env.close)
        tools == DiscoveredTools(d.name, env.listing)
        schemas == DiscoveredSchemas(d.name, env.listing)
        project_dir == ProjectDir(getenv_WORK_DIR(work_dir), d.name, t)
        tools_file == ToolsFile(project_dir, d.name)
        tools_data == [mcp_name |-> d.name, tools |-> tools, schemas |-> schemas]
        body ==
          IF env.fault = "create_session" THEN [r |-> ErrorResult(CreateExc), files |-> fs, dirs |-> ds]
          ELSE IF env.fault = "list_tools" THEN [r |-> ErrorResult(ListExc), files |-> fs, dirs |-> ds]
          ELSE IF env.fault = "write"
          THEN [r |-> ErrorResult(WriteExc), files |-> fs, dirs |-> makedirs(ds, project_dir)]
          ELSE [r |-> [status |-> "success", phase |-> "1.2", mcp_name |-> d.name,
                       tools_count |-> Len(tools), tools |-> Take(tools, 5),
                       tools_file_path |-> tools_file],
                files |-> write_file(fs, tools_file, json_dump(tools_data, ToolsKeys)),
                dirs |-> makedirs(ds, project_dir)]
    IN IF CloseRaises(env.close) THEN Raised(CloseExc, 1, after, body.files, body.dirs)
       ELSE Returned(body.r, 1, after, body.files, body.dirs)

\* ---------------------------------------------------------------- phase 2

LowerToken(t) == CASE t = "Add" -> "add" [] t = "Get" -> "get" [] OTHER -> t

\* str.lower()
lower(str) == [i \in DOMAIN str |-> LowerToken(str[i])]

\* tool.split('__')[-1] if '__' in tool else tool
UnprefixedName(tool) ==
  IF Contains(tool, <<"_", "_">>)
  THEN LET parts == Split(tool, <<"_", "_">>) IN parts[Len(parts)]
  ELSE tool

AnyIn(str, ops) == \E op \in ops : Contains(str, <<op>>)

\* the if / elif chain: the first bucket with a keyword in the lowered name
Bucket(tool) ==
  LET tool_name == lower(UnprefixedName(tool)) IN
  IF AnyIn(tool_name, {"create", "add", "new"}) THEN "create"
  ELSE IF AnyIn(tool_name, {"read", "get", "list", "fetch"}) THEN "read"
  ELSE IF AnyIn(tool_name, {"update", "edit", "modify"}) THEN "update"
  ELSE IF AnyIn(tool_name, {"delete", "remove"}) THEN "delete"
  ELSE IF AnyIn(tool_name, {"query", "search", "find"}) THEN "query"
  ELSE "other"

RECURSIVE Filter(_, _)
Filter(tools, b) ==
  IF tools = <<>> THEN <<>>
  ELSE (IF Bucket(Head(tools)) = b THEN <<Head(tools)>> ELSE <<>>) \o Filter(Tail(tools), b)

tool_groups(tools) ==
  [b \in {"create", "read", "update", "delete", "query", "other"} |-> Filter(tools, b)]

TemplatedArg(name, description, required) ==
  [name |-> name, description |-> description, required |-> required, default |-> None]

WorkflowKeys == <<"workflow_name", "description", "agent_config_name", "input_prompt",
                  "templated_args", "tool_sequence", "domain">>

\* faulty variant of crud_workflow: every create tool is taken
crud_workflow_every_create(mcp_name, groups) ==
  [workflow_name |-> mcp_name \o <<"_", "crud", "_", "workflow">>,
   description |-> <<"Create, read, update, and delete operations for ">> \o mcp_name,
   agent_config_name |-> mcp_name \o <<"_", "crud", "_", "agent">>,
   input_prompt |-> <<"Perform ", "{{operation}}", " on ", "{{entity}}", " with data: ", "{{data}}">>,
   templated_args |-> <<TemplatedArg(<<"operation">>, <<"CRUD operation to perform">>, TRUE),
                        TemplatedArg(<<"entity">>, <<"Entity to operate on">>, TRUE),
                        TemplatedArg(<<"data">>, <<"Data for the operation">>, TRUE)>>,
   tool_sequence |-> groups["create"] \o Take(groups["read"], 2),
   domain |-> <<"data_management">>]

crud_workflow(mcp_name, groups) ==
  [workflow_name |-> mcp_name \o <<"_", "crud", "_", "workflow">>,
   description |-> <<"Create, read, update, and delete operations for ">> \o mcp_name,
   agent_config_name |-> mcp_name \o <<"_", "crud", "_", "agent">>,
   input_prompt |-> <<"Perform ", "{{operation}}", " on ", "{{entity}}", " with data: ", "{{data}}">>,
   templated_args |-> <<TemplatedArg(<<"operation">>, <<"CRUD operation to perform">>, TRUE),
                        TemplatedArg(<<"entity">>, <<"Entity to operate on">>, TRUE),
                        TemplatedArg(<<"data">>, <<"Data for the operation">>, TRUE)>>,
   tool_sequence |-> Take(groups["create"], 2) \o Take(groups["read"], 2),
   domain |-> <<"data_management">>]

\* faulty variant of query_workflow: only the first two query tools are taken
query_workflow_first_two(mcp_name, groups) ==
  [workflow_name |-> mcp_name \o <<"_", "query", "_", "workflow">>,
   description |-> <<"Query and search operations for ">> \o mcp_name,
   agent_config_name |-> mcp_name \o <<"_", "query", "_", "agent">>,
   input_prompt |-> <<"Search for ", "{{query}}", " with filters: ", "{{filters}}">>,
   templated_args |-> <<TemplatedArg(<<"query">>, <<"Search query">>, TRUE),
                        TemplatedArg(<<"filters">>, <<"Optional filters">>, FALSE)>>,
   tool_sequence |-> Take(groups["query"], 2),
   domain |-> <<"information_retrieval">>]

query_workflow(mcp_name, groups) ==
  [workflow_name |-> mcp_name \o <<"_", "query", "_", "workflow">>,
   description |-> <<"Query and search operations for ">> \o mcp_name,
   agent_config_name |-> mcp_name \o <<"_", "query", "_", "agent">>,
   input_prompt |-> <<"Search for ", "{{query}}", " with filters: ", "{{filters}}">>,
   templated_args |-> <<TemplatedArg(<<"query">>, <<"Search query">>, TRUE),
                        TemplatedArg(<<"filters">>, <<"Optional filters">>, FALSE)>>,
   tool_sequence |-> Take(groups["query"], 3),
   domain |-> <<"information_retrieval">>]

\* faulty variant of general_workflow: the tool list is not cut at ten
general_workflow_every_tool(mcp_name, tools) ==
  [workflow_name |-> mcp_name \o <<"_", "general", "_", "workflow">>,
   description |-> <<"General purpose workflow using all ">> \o mcp_name \o <<" tools">>,
   agent_config_name |-> mcp_name \o <<"_", "general", "_", "agent">>,
   input_prompt |-> <<"{{task_description}}">>,
   templated_args |-> <<TemplatedArg(<<"task_description">>, <<"Description of task to perform">>, TRUE)>>,
   tool_sequence |-> tools,
   domain |-> <<"general">>]

general_workflow(mcp_name, tools) ==
  [workflow_name |-> mcp_name \o <<"_", "general", "_", "workflow">>,
   description |-> <<"General purpose workflow using all ">> \o mcp_name \o <<" tools">>,
   agent_config_name |-> mcp_name \o <<"_", "general", "_", "agent">>,
   input_prompt |-> <<"{{task_description}}">>,
   templated_args |-> <<TemplatedArg(<<"task_description">>, <<"Description of task to perform">>, TRUE)>>,
   tool_sequence |-> Take(tools, 10),
   domain |-> <<"general">>]

\* faulty variant of SynthesizeWorkflows: the general workflow is left out
\* unless the requirements ask for all tools
SynthesizeWorkflows_by_requirements(tools_data, user_requirements, fs) ==
  LET mcp_name == Str(tools_data["mcp_name"])
      tools == tools_data["tools"]
      groups == tool_groups(tools)
  IN (IF groups["create"] # <<>> /\ groups["read"] # <<>>
      THEN <<crud_workflow(mcp_name, groups)>> ELSE <<>>)
     \o (IF groups["query"] # <<>> THEN <<query_workflow(mcp_name, groups)>> ELSE <<>>)
     \o (IF user_requirements = <<"Create comprehensive workflows for all tools">>
         THEN <<general_workflow(mcp_name, tools)>> ELSE <<>>)

\* the workflows list built from the loaded tools data; user_requirements is
\* a parameter of the tool that the synthesis does not read
SynthesizeWorkflows(tools_data, user_requirements, fs) ==
  LET mcp_name == Str(tools_data["mcp_name"])
      tools == tools_data["tools"]
      groups == tool_groups(tools)
  IN (IF groups["create"] # <<>> /\ groups["read"] # <<>>
      THEN <<crud_workflow(mcp_name, groups)>> ELSE <<>>)
     \o (IF groups["query"] # <<>> THEN <<query_workflow(mcp_name, groups)>> ELSE <<>>)
     \o <<general_workflow(mcp_name, tools)>>

WorkflowFile(workflows_dir, workflow) ==
  workflows_dir \o <<"/">> \o workflow.workflow_name \o <<".json">>

RECURSIVE WriteWorkflows(_, _, _)
WriteWorkflows(fs, workflows_dir, workflows) ==
  IF workflows = <<>> THEN fs
  ELSE WriteWorkflows(write_file(fs, WorkflowFile(workflows_dir, Head(workflows)),
                                 json_dump(Head(workflows), WorkflowKeys)),
                      workflows_dir, Tail(workflows))

FileNotFound(path) == Exc("FileNotFoundError", <<"No such file or directory: ">> \o path)
\* str(KeyError(key)) is the repr of the key
KeyError(key) == Exc("KeyError", <<"'", key, "'">>)

\* merged server, phase 2.1: the whole body is inside the try
phase2_1_create_workflow_configs(tools_file_path, user_requirements, fault, fs, ds) ==
  IF tools_file_path \notin DOMAIN fs
  THEN Returned(ErrorResult(FileNotFound(tools_file_path)), 0, 0, fs, ds)
  ELSE
    LET tools_data == json_load(fs[tools_file_path]) IN
    IF "mcp_name" \notin DOMAIN tools_data
    THEN Returned(ErrorResult(KeyError("mcp_name")), 0, 0, fs, ds)
    ELSE IF "tools" \notin DOMAIN tools_data
    THEN Returned(ErrorResult(KeyError("tools")), 0, 0, fs, ds)
    ELSE
      LET workflows == SynthesizeWorkflows(tools_data, user_requirements, fs)
          project_dir == parent(tools_file_path)
          workflows_dir == project_dir \o <<"/", "workflows">>
      IN IF project_dir \notin ds
         THEN Returned(ErrorResult(FileNotFound(workflows_dir)), 0, 0, fs, ds)
         ELSE IF fault = "write"
         THEN Returned(ErrorResult(WriteExc), 0, 0, fs, ds \cup {workflows_dir})
         ELSE Returned([status |-> "success", phase |-> "2.1",
                        workflows_created |-> Len(workflows),
                        workflows_directory |-> workflows_dir],
                       0, 0, WriteWorkflows(fs, workflows_dir, workflows),
                       ds \cup {workflows_dir})

\* tool is a full prefixed name here; the tests are case-sensitive
ToolCapability(tool) ==
  IF AnyIn(tool, {"add", "create"}) THEN <<"create new entities">>
  ELSE IF AnyIn(tool, {"query", "search", "get"}) THEN <<"search and retrieve information">>
  ELSE IF AnyIn(tool, {"list"}) THEN <<"list existing entities">>
  ELSE IF AnyIn(tool, {"update", "edit"}) THEN <<"modify existing entities">>
  ELSE <<>>

\* the phrases of the first five tools, in order, repeats kept
RECURSIVE Capabilities(_)
Capabilities(tools) ==
  IF tools = <<>> THEN <<>>
  ELSE (IF ToolCapability(Head(tools)) = <<>> THEN <<>> ELSE <<ToolCapability(Head(tools))>>)
       \o Capabilities(Tail(tools))

_analyze_tool_capabilities(tools) == Capabilities(Take(tools, 5))

\* the orders in which a set can be iterated: glob yields the files of a
\* directory in any order, the hash seed decides the order of a set of strings
Orders(S) == {o \in [1..Cardinality(S) -> S] : Range(o) = S}

\* ", ".join(set(tool_descriptions)): each distinct phrase once, in the
\* set's iteration order
RECURSIVE JoinSet(_, _)
JoinSet(order, members) ==
  IF order = <<>> THEN <<>>
  ELSE LET rest == JoinSet(Tail(order), members)
       IN IF Head(order) \notin members THEN rest
          ELSE IF rest = <<>> THEN Head(order)
          ELSE Head(order) \o <<", ">> \o rest

_generate_system_prompt(mcp_name, tool_descriptions, hash_order) ==
  LET capabilities == IF tool_descriptions # <<>>
                      THEN JoinSet(hash_order, Range(tool_descriptions))
                      ELSE <<"perform various operations">>
  IN <<"You are an expert agent for the ">> \o mcp_name \o <<" system. You can ">>
     \o capabilities
     \o <<" using the available tools. Execute tasks efficiently and provide clear results.">>

AgentKeys == <<"agent_name", "mcp_names", "system_prompt", "allowed_tools", "model",
               "provider", "max_steps">>

\* faulty variant of _create_agent_from_workflow: the allowed tools are the
\* un-prefixed names
_create_agent_from_workflow_raw_names(workflow, mcp_name, hash_order) ==
  LET agent_name == workflow["agent_config_name"]
      tools == workflow["tool_sequence"]
      tool_descriptions == _analyze_tool_capabilities(tools)
  IN [agent_name |-> agent_name,
      mcp_names |-> <<mcp_name>>,
      system_prompt |-> _generate_system_prompt(mcp_name, tool_descriptions, hash_order),
      allowed_tools |-> [i \in DOMAIN tools |-> UnprefixedName(tools[i])],
      model |-> <<"gpt-5-mini">>,
      provider |-> <<"openai">>,
      max_steps |-> 20]

_create_agent_from_workflow(workflow, mcp_name, hash_order) ==
  LET agent_name == workflow["agent_config_name"]
      tools == workflow["tool_sequence"]
      tool_descriptions == _analyze_tool_capabilities(tools)
  IN [agent_name |-> agent_name,
      mcp_names |-> <<mcp_name>>,
      system_prompt |-> _generate_system_prompt(mcp_name, tool_descriptions, hash_order),
      allowed_tools |-> tools,
      model |-> <<"gpt-5-mini">>,
      provider |-> <<"openai">>,
      max_steps |-> 20]

\* workflows_dir.glob("*.json"): the files of the directory (none when the
\* directory does not exist) whose name ends in .json
IsJsonName(path) == path # <<>> /\ path[Len(path)] \in {".json", "_config.json"}

glob_json(fs, dir) == {f \in DOMAIN fs : parent(f) = dir /\ IsJsonName(f)}

\* faulty variant of rsplit2_first: the text before the first underscore
rsplit2_first_from_left(str) ==
  LET us == {i \in DOMAIN str : str[i] = "_"}
  IN IF us = {} THEN str ELSE SubSeq(str, 1, Min(us) - 1)

\* s.rsplit('_', 2)[0]: the text before the second-to-last underscore (before
\* the last one when there is only one, the whole text when there is none)
rsplit2_first(str) ==
  LET us == {i \in DOMAIN str : str[i] = "_"}
      lastU == CHOOSE i \in us : \A j \in us : j <= i
      before == {i \in us : i < lastU}
  IN IF us = {} THEN str
     ELSE IF before = {} THEN SubSeq(str, 1, lastU - 1)
     ELSE SubSeq(str, 1, (CHOOSE i \in before : \A j \in before : j <= i) - 1)

\* a file whose text is not JSON
Unparseable == <<<<"{">>>>

\* json.load accepts the text: it is a sequence of key and value pairs
json_valid(text) == \A i \in DOMAIN text : Len(text[i]) = 2

JSONDecodeError == Exc("JSONDecodeError", <<"Expecting value: line 1 column 1 (char 0)">>)

PermissionError(path) == Exc("PermissionError", <<"Permission denied: ">> \o path)

\* faulty variant of _load_workflow_configs: a file that cannot be read or
\* parsed is skipped
_load_workflow_configs_skipping_failures(workflows_directory, order, fault, fs) ==
  LET readable == SelectSeq(order, LAMBDA f : json_valid(fs[f]))
      kept == IF fault = "read" /\ readable # <<>> THEN Tail(readable) ELSE readable
      workflows == [i \in DOMAIN kept |-> json_load(fs[kept[i]])] IN
  IF workflows # <<>> /\ "workflow_name" \notin DOMAIN workflows[1]
  THEN [raised |-> TRUE, exc |-> KeyError("workflow_name"), workflows |-> workflows, mcp_name |-> <<>>]
  ELSE [raised |-> FALSE, exc |-> NoExc, workflows |-> workflows,
        mcp_name |-> IF workflows # <<>> THEN rsplit2_first(workflows[1]["workflow_name"])
                     ELSE <<"unknown">>]

\* the workflows in glob order and the service name taken from the first; the
\* files are opened and parsed one after the other, and the first open or
\* json.load that raises ends the loop
_load_workflow_configs(workflows_directory, order, fault, fs) ==
  LET workflows == [i \in DOMAIN order |-> json_load(fs[order[i]])] IN
  IF fault = "read" /\ order # <<>>
  THEN [raised |-> TRUE, exc |-> PermissionError(order[1]), workflows |-> <<>>, mcp_name |-> <<>>]
  ELSE IF \E i \in DOMAIN order : ~json_valid(fs[order[i]])
  THEN [raised |-> TRUE, exc |-> JSONDecodeError, workflows |-> <<>>, mcp_name |-> <<>>]
  ELSE IF workflows # <<>> /\ "workflow_name" \notin DOMAIN workflows[1]
  THEN [raised |-> TRUE, exc |-> KeyError("workflow_name"), workflows |-> workflows, mcp_name |-> <<>>]
  ELSE [raised |-> FALSE, exc |-> NoExc, workflows |-> workflows,
        mcp_name |-> IF workflows # <<>> THEN rsplit2_first(workflows[1]["workflow_name"])
                     ELSE <<"unknown">>]

\* the loop reads agent_config_name of every workflow, and tool_sequence of
\* those whose agent name is not in the dict yet; the first missing key raises
MissingKeys(workflows) ==
  {i \in DOMAIN workflows :
     \/ "agent_config_name" \notin DOMAIN workflows[i]
     \/ /\ "tool_sequence" \notin DOMAIN workflows[i]
        /\ \A j \in 1..(i - 1) :
             "agent_config_name" \in DOMAIN workflows[j]
               => workflows[j]["agent_config_name"] # workflows[i]["agent_config_name"]}

FirstMissingKey(workflows) ==
  IF "agent_config_name" \notin DOMAIN workflows[Min(MissingKeys(workflows))]
  THEN "agent_config_name" ELSE "tool_sequence"

\* faulty variant of _create_unique_agents: a name already present is replaced
RECURSIVE _create_unique_agents_last_wins(_, _, _, _)
_create_unique_agents_last_wins(workflows, mcp_name, hash_order, agents) ==
  IF workflows = <<>> THEN agents
  ELSE LET workflow == Head(workflows)
           agent_name == workflow["agent_config_name"]
           agent == _create_agent_from_workflow(workflow, mcp_name, hash_order)
       IN _create_unique_agents_last_wins(
            Tail(workflows), mcp_name, hash_order,
            IF \E i \in DOMAIN agents : agents[i].agent_name = agent_name
            THEN [i \in DOMAIN agents |->
                    IF agents[i].agent_name = agent_name THEN agent ELSE agents[i]]
            ELSE Append(agents, agent))

\* the agents dict in insertion order: a name already present is skipped
RECURSIVE _create_unique_agents(_, _, _, _)
_create_unique_agents(workflows, mcp_name, hash_order, agents) ==
  IF workflows = <<>> THEN agents
  ELSE LET workflow == Head(workflows)
           agent_name == workflow["agent_config_name"]
       IN _create_unique_agents(
            Tail(workflows), mcp_name, hash_order,
            IF \E i \in DOMAIN agents : agents[i].agent_name = agent_name
            THEN agents
            ELSE Append(agents, _create_agent_from_workflow(workflow, mcp_name, hash_order)))

AgentsDir(workflows_directory) == parent(workflows_directory) \o <<"/", "agents">>

\* faulty variant of WriteAgents: only the first agent of the dict is saved
WriteAgents_first_only(fs, configs_dir, agents) ==
  IF agents = <<>> THEN fs
  ELSE write_file(fs, configs_dir \o <<"/">> \o Head(agents).agent_name \o <<".json">>,
                  json_dump(Head(agents), AgentKeys))

RECURSIVE WriteAgents(_, _, _)
WriteAgents(fs, configs_dir, agents) ==
  IF agents = <<>> THEN fs
  ELSE WriteAgents(write_file(fs, configs_dir \o <<"/">> \o Head(agents).agent_name \o <<".json">>,
                              json_dump(Head(agents), AgentKeys)),
                   configs_dir, Tail(agents))

_build_phase2_2_success_response(agents, configs_dir_str) ==
  [status |-> "success", phase |-> "2.2", agents_created |-> Len(agents),
   configs_directory |-> configs_dir_str, project_complete |-> TRUE]

\* merged server, phase 2.2: the whole body is inside the try;
\* configs_dir.mkdir(exist_ok=True) needs the parent directory to exist (and
\* nothing can be made directly under the root)
phase2_2_create_agent_configs(workflows_directory, order, hash_order, fault, fs, ds) ==
  LET loaded == _load_workflow_configs(workflows_directory, order, fault, fs)
      configs_dir == AgentsDir(workflows_directory)
  IN IF loaded.raised THEN Returned(ErrorResult(loaded.exc), 0, 0, fs, ds)
     ELSE IF MissingKeys(loaded.workflows) # {}
     THEN Returned(ErrorResult(KeyError(FirstMissingKey(loaded.workflows))), 0, 0, fs, ds)
     ELSE
       LET agents == _create_unique_agents(loaded.workflows, loaded.mcp_name, hash_order, <<>>)
       IN IF parent(configs_dir) \notin ds
          THEN Returned(ErrorResult(FileNotFound(configs_dir)), 0, 0, fs, ds)
          ELSE IF fault = "write" /\ agents # <<>>
          THEN Returned(ErrorResult(WriteExc), 0, 0, fs, ds \cup {configs_dir})
          ELSE Returned(_build_phase2_2_success_response(agents, configs_dir),
                        0, 0, WriteAgents(fs, configs_dir, agents), ds \cup {configs_dir})

\* ------------------------------------------------------- the phase pipeline

Tiers == {"phase", "merged"}

UserRequirements == {<<"Create comprehensive workflows for all tools">>, <<"only search">>}

\* descriptors with every field present
ValidDescriptors == {d \in Descriptors : ~Missing(d)}

NoFault == [fault |-> "none", close |-> "closed", listing |-> <<>>]

\* every environment of one call; the listing is read only when create_session
\* and list_tools succeed
FaultEnvs ==
  {e \in [fault : Faults, close : CloseOutcomes, listing : Listings] :
     /\ e.fault \in {"create_session", "list_tools"} => e.listing = <<>>
     /\ e.fault = "create_session" => e.close # "raises_open"}

\* the environments of the pipeline runs: the service lists any tools, or
\* cannot be reached
PipelineEnvs ==
  [fault : {"none"}, close : {"closed"}, listing : ToolLists]
  \cup {[fault |-> "create_session", close |-> "closed", listing |-> <<>>]}

PipelineInstallEnvs == {e \in PipelineEnvs : e.listing \in Listings}

\* strictness of the descriptor model matters only for a missing field, and
\* the environment only when the descriptor object is built
StrictChoices(d) == IF Missing(d) THEN BOOLEAN ELSE {FALSE}

EnvsFor(E, d, strict) == IF ConstructionRaises(d, strict) THEN {NoFault} ELSE E

\* the recognised credential variables
API_KEY_VARS == {"OPENAI_API_KEY", "ANTHROPIC_API_KEY", "GOOGLE_API_KEY", "AZURE_OPENAI_API_KEY"}

\* no descriptor writer is running and the phase tools server is not started
NoProcesses ==
  /\ writers = <<>>
  /\ environ = [v \in API_KEY_VARS |-> None]
  /\ server_pc = "not_started"
  /\ registered = {}
  /\ delegated_runs = 0

\* a process started with WORK_DIR set, nothing written yet
Init ==
  /\ WORK_DIR = Some(<<"/work">>)
  /\ now = 0
  /\ calls = 0
  /\ files = <<>>
  /\ dirs = {}
  /\ open_sessions = 0
  /\ last = [op |-> "init"]
  /\ synthesized = {}
  /\ discovered = {}
  /\ NoProcesses

\* the clock reaches the next second
Tick ==
  /\ now < MaxTime
  /\ now' = now + 1
  /\ UNCHANGED <<WORK_DIR, calls, files, dirs, open_sessions, last, synthesized>>
  /\ UNCHANGED <<discovered, process_vars>>

Apply(eff) ==
  /\ calls' = calls + 1
  /\ files' = eff.files
  /\ dirs' = eff.dirs
  /\ open_sessions' = open_sessions + eff.open
  /\ UNCHANGED <<WORK_DIR, now>>
  /\ UNCHANGED process_vars

Phase1Record(op, tier, d, env, eff) ==
  [op |-> op, tier |-> tier, d |-> d, fault |-> env.fault,
   close |-> env.close, listing |-> env.listing, outcome |-> eff.outcome,
   exc |-> eff.exc, result |-> eff.result, created |-> eff.created, open |-> eff.open]

\* one call of a handler: it runs once and eff is what it did
InstallWith(T, D, E) ==
  \E tier \in T, d \in D :
       \E strict \in StrictChoices(d) :
         \E env \in EnvsFor(E, d, strict) :
           \E eff \in {IF tier = "phase"
                        THEN phase1_1_install_mcp_tool(d, strict, env, WORK_DIR, files, dirs)
                        ELSE merged_phase1_1_install_mcp_tool(d, strict, env, WORK_DIR, files, dirs)} :
              /\ Apply(eff)
              /\ last' = Phase1Record("install_service", tier, d, env, eff)
              /\ UNCHANGED <<synthesized, discovered>>

DiscoverWith(T, D, E) ==
  \E tier \in T, d \in D :
       \E strict \in StrictChoices(d) :
         \E env \in EnvsFor(E, d, strict) :
           \E eff \in {IF tier = "phase"
                        THEN phase1_2_list_mcp_tools_tool(d, strict, env, now, WORK_DIR, files, dirs)
                        ELSE merged_phase1_2_list_mcp_tools_tool(d, strict, env, now, WORK_DIR, files, dirs)} :
              /\ Apply(eff)
              /\ last' = Phase1Record("discover_tools", tier, d, env, eff)
              /\ discovered' =
                   IF eff.outcome = "returned" /\ eff.result.status = "success"
                   THEN discovered \cup
                          {[call |-> calls + 1, name |-> d.name, t |-> now,
                            project_dir |-> parent(eff.result.tools_file_path),
                            tools_file |-> eff.result.tools_file_path]}
                   ELSE discovered
              /\ UNCHANGED synthesized

\* the pipeline of the merged server, which holds all four phase tools
Install == calls < MaxCalls /\ InstallWith({"merged"}, ValidDescriptors, PipelineInstallEnvs)

Discover == calls < MaxCalls /\ DiscoverWith({"merged"}, ValidDescriptors, PipelineEnvs)

\* the workflow files one call opened for writing, each as its name and the
\* content it holds after the call
Emitted(workflows_dir, workflows, fs) ==
  {<<basename(WorkflowFile(workflows_dir, workflows[i])),
     fs[WorkflowFile(workflows_dir, workflows[i])]>> : i \in DOMAIN workflows}

\* the paths a caller may hand to create_workflows: any file, and the tools
\* file of any project whether it was written or not
ToolsFileInputs ==
  DOMAIN files
  \cup {ToolsFile(ProjectDir(getenv_WORK_DIR(WORK_DIR), Some(n), t), Some(n)) :
          n \in Names, t \in 0..MaxTime}

CreateWorkflowsWith(paths, faults) ==
  /\ calls < MaxCalls
  /\ \E path \in paths, req \in UserRequirements, fault \in faults :
       \E eff \in {phase2_1_create_workflow_configs(path, req, fault, files, dirs)} :
          /\ Apply(eff)
          /\ last' = [op |-> "create_workflows", tier |-> "merged", path |-> path,
                      user_requirements |-> req, fault |-> fault, outcome |-> eff.outcome,
                      exc |-> eff.exc, result |-> eff.result,
                      created |-> eff.created, open |-> eff.open]
          /\ synthesized' =
               IF eff.result.status = "success"
               THEN synthesized \cup
                      {[mcp_name |-> json_load(files[path])["mcp_name"],
                        tools |-> json_load(files[path])["tools"],
                        user_requirements |-> req,
                        emitted |-> Emitted(eff.result.workflows_directory,
                                            SynthesizeWorkflows(json_load(files[path]), req, files),
                                            eff.files)]}
               ELSE synthesized
          /\ UNCHANGED discovered

CreateWorkflows == CreateWorkflowsWith(ToolsFileInputs, {"none", "write"})

\* the directories a caller may hand to create_agent_configs: any directory,
\* and the workflows directory of any project whether it was made or not
WorkflowsDirInputs ==
  dirs
  \cup {ProjectDir(getenv_WORK_DIR(WORK_DIR), Some(n), t) \o <<"/", "workflows">> :
          n \in Names, t \in 0..MaxTime}

\* the capability phrases of the workflows of a directory: only their
\* relative order in the hash order can show
PhrasesIn(dir) ==
  UNION {IF json_valid(files[f]) /\ "tool_sequence" \in DOMAIN json_load(files[f])
         THEN Range(_analyze_tool_capabilities(json_load(files[f])["tool_sequence"]))
         ELSE {} : f \in glob_json(files, dir)}

CreateAgentConfigs ==
  /\ calls < MaxCalls
  /\ \E dir \in WorkflowsDirInputs, fault \in {"none", "read", "write"} :
       \E order \in Orders(glob_json(files, dir)), hash_order \in Orders(PhrasesIn(dir)) :
         \E eff \in {phase2_2_create_agent_configs(dir, order, hash_order, fault, files, dirs)} :
            /\ Apply(eff)
            /\ last' = [op |-> "create_agent_configs", tier |-> "merged",
                        workflows_directory |-> dir, order |-> order, fault |-> fault,
                        outcome |-> eff.outcome, exc |-> eff.exc, result |-> eff.result,
                        created |-> eff.created, open |-> eff.open]
            /\ UNCHANGED <<synthesized, discovered>>

Next == Tick \/ Install \/ Discover \/ CreateWorkflows \/ CreateAgentConfigs

Spec == Init /\ [][Next]_vars

\* ------------------------------------------ discovery and workflow synthesis

\* discoveries that succeed and create_workflows calls on the files they
\* wrote, all within one second
SynthEnvs == [fault : {"none"}, close : {"closed"}, listing : ToolLists]

SynthDiscover == calls < MaxCalls /\ DiscoverWith({"merged"}, ValidDescriptors, SynthEnvs)

Synthesize == CreateWorkflowsWith(DOMAIN files, {"none"})

NextSynth == SynthDiscover \/ Synthesize

SpecSynth == Init /\ [][NextSynth]_vars

\* ------------------------------------------- phase 1 under every environment

\* one call of a phase 1 tool of either tier, from the initial state
FaultyInstall == calls = 0 /\ InstallWith(Tiers, Descriptors, FaultEnvs)

FaultyDiscover == calls = 0 /\ DiscoverWith(Tiers, Descriptors, FaultEnvs)

NextFaults == FaultyInstall \/ FaultyDiscover

\* WORK_DIR may be unset
InitFaults ==
  /\ WORK_DIR \in {None, Some(<<"/work">>)}
  /\ now = 0
  /\ calls = 0
  /\ files = <<>>
  /\ dirs = {}
  /\ open_sessions = 0
  /\ last = [op |-> "init"]
  /\ synthesized = {}
  /\ discovered = {}
  /\ NoProcesses

SpecFaults == InitFaults /\ [][NextFaults]_vars

\* ------------------------------------------------------------- namespacing

\* tool.startswith("mcp__")
startswith_mcp(tool) == Take(tool, 3) = <<"mcp", "_", "_">>

\* the second segment of every tool name that starts with mcp__ and splits
\* into at least three segments
extract_mcp_names_from_tools(allowed_tools) ==
  {Split(allowed_tools[i], <<"_", "_">>)[2] :
     i \in {j \in DOMAIN allowed_tools :
              /\ startswith_mcp(allowed_tools[j])
              /\ Len(Split(allowed_tools[j], <<"_", "_">>)) >= 3}}

\* names as non-empty text over a letter and the underscore
NameStrings == SeqsUpTo({"a", "_"}, MaxNameLen) \ {<<>>}

\* one discovery call namespaces the two tools a service lists; the names are
\* then read back from the prefixed names
Namespace ==
  /\ calls = 0
  /\ \E service_name \in NameStrings, raw1 \in NameStrings, raw2 \in NameStrings :
       LET tools == DiscoveredTools(Some(service_name), <<[name |-> raw1], [name |-> raw2]>>)
       IN last' = [op |-> "namespace", service_name |-> service_name,
                   raw |-> <<raw1, raw2>>, tools |-> tools,
                   mcp_names |-> extract_mcp_names_from_tools(tools)]
  /\ calls' = calls + 1
  /\ UNCHANGED <<WORK_DIR, now, files, dirs, open_sessions, synthesized>>
  /\ UNCHANGED <<discovered, process_vars>>

NextNames == Namespace

SpecNames == Init /\ [][NextNames]_vars

\* ------------------------------------------------------------ orchestrator

project_complete == <<"project", "_", "complete">>
configs_directory == <<"configs", "_", "directory">>

TranscriptTokens == {"project", "configs", "_", "complete", "directory"}

Transcripts == SeqsUpTo(TranscriptTokens, MaxTranscriptLen)

\* how agent.run(prompt) ends: with a transcript or with an exception, the
\* client holding the sessions the agent opened (none when it failed before
\* connecting)
AgentRuns ==
  [kind : {"transcript"}, transcript : Transcripts, held : {1}]
  \cup [kind : {"raises"}, transcript : {<<>>}, held : {0, 1}]

AgentExc == Exc("RuntimeError", <<"agent loop failed">>)

\* mcp_config.get(key): None when the key is absent
get(mcp_config, key) == mcp_config[key]

\* mcp_config['name'], ['command'], ['args'] are subscripted: an absent key
\* raises KeyError
_build_execution_prompt_raises(mcp_config) == Missing(mcp_config)

\* the order in which the prompt reads the keys
KeyRank(k) == CASE k = "name" -> 1 [] k = "command" -> 2 [] OTHER -> 3

\* faulty variant of _parse_result: success needs both markers
_parse_result_both_markers(result, mcp_config) ==
  IF Contains(result, project_complete) /\ Contains(result, configs_directory)
  THEN [status |-> "success", result |-> result, mcp_name |-> get(mcp_config, "name"),
        message |-> <<"Workflow package generated successfully">>]
  ELSE [status |-> "partial", result |-> result, mcp_name |-> get(mcp_config, "name"),
        message |-> <<"Generation may be incomplete">>]

_parse_result(result, mcp_config) ==
  IF Contains(result, project_complete) \/ Contains(result, configs_directory)
  THEN [status |-> "success", result |-> result, mcp_name |-> get(mcp_config, "name"),
        message |-> <<"Workflow package generated successfully">>]
  ELSE [status |-> "partial", result |-> result, mcp_name |-> get(mcp_config, "name"),
        message |-> <<"Generation may be incomplete">>]

NoFiles == <<>>

\* faulty variant of generate_workflows: the client is closed after the agent
\* returned, not in a finally, so a raising agent leaves it as it was
generate_workflows_without_finally(mcp_config, run, close) ==
  IF _build_execution_prompt_raises(mcp_config)
  THEN Raised(KeyError("name"), 0, 0, NoFiles, {})
  ELSE
    IF run.kind = "raises" THEN Returned(ErrorResult(AgentExc), 0, run.held, NoFiles, {})
    ELSE IF CloseRaises(close) THEN Raised(CloseExc, 0, AfterClose(run.held, close), NoFiles, {})
    ELSE Returned(_parse_result(run.transcript, mcp_config), 0,
                  AfterClose(run.held, close), NoFiles, {})

\* SimpleOrchestrator.generate_workflows: client, agent and prompt are built
\* before the try; the finally closes the client
generate_workflows(mcp_config, run, close) ==
  IF _build_execution_prompt_raises(mcp_config)
  THEN Raised(KeyError(CHOOSE k \in required_fields :
                         /\ IsNone(mcp_config[k])
                         /\ \A j \in required_fields :
                              IsNone(mcp_config[j]) => KeyRank(k) <= KeyRank(j)),
              0, 0, NoFiles, {})
  ELSE
    LET after == AfterClose(run.held, close)
        r == IF run.kind = "transcript" THEN _parse_result(run.transcript, mcp_config)
             ELSE ErrorResult(AgentExc)
    IN IF CloseRaises(close) THEN Raised(CloseExc, 0, after, NoFiles, {})
       ELSE Returned(r, 0, after, NoFiles, {})

\* json.dumps of a string: quotes and newlines are escaped
JsonEscape(str) ==
  [i \in DOMAIN str |-> CASE str[i] = "\"" -> "\\\"" [] str[i] = "\n" -> "\\n" [] OTHER -> str[i]]

JsonString(str) == <<"\"">> \o JsonEscape(str) \o <<"\"">>

HandoffMessage == <<"\n", "\n", "Everything is ready for you and the user to now add more.">>

\* json.dumps(result, indent=2) of a result dict, its text fields only
ResultJson(r) ==
  <<"{", "\"status\"", ": ">> \o JsonString(<<r.status>>)
  \o (IF "error" \in DOMAIN r THEN <<", ", "\"error\"", ": ">> \o JsonString(r.error) ELSE <<>>)
  \o (IF "traceback" \in DOMAIN r
      THEN <<", ", "\"traceback\"", ": ">> \o JsonString(r.traceback) ELSE <<>>)
  \o (IF "result" \in DOMAIN r THEN <<", ", "\"result\"", ": ">> \o JsonString(r.result) ELSE <<>>)
  \o <<"}">>

\* the f-string of the except branch: the message and the traceback are put
\* between quotes as they are
ErrorString(e) ==
  <<"{", "\"success\"", ": ", "false", ", ", "\"error\"", ": ", "\"",
    "Workflow generation failed: ">> \o StrExc(e)
  \o <<"\"", ", ", "\"traceback\"", ": ", "\"">> \o format_exc(e) \o <<"\"", "}">>

\* generate_flows_for_mcp: the result dict as JSON followed by the handoff
\* message, or the error string when generate_workflows raises
generate_flows_for_mcp(mcp_config, run, close) ==
  LET g == generate_workflows(mcp_config, run, close)
  IN IF g.outcome = "raised"
     THEN Returned([text |-> ErrorString(g.exc)], 0, g.open, NoFiles, {})
     ELSE Returned([text |-> ResultJson(g.result) \o HandoffMessage], 0, g.open, NoFiles, {})

\* whether json.loads accepts a text: one object of string and literal
\* members, no raw quote or newline inside a string, nothing after the object
RECURSIVE JsonScan(_, _, _, _)
JsonScan(text, i, in_string, depth) ==
  IF i > Len(text) THEN ~in_string /\ depth = 0 /\ text # <<>>
  ELSE IF in_string
  THEN IF text[i] = "\"" THEN JsonScan(text, i + 1, FALSE, depth)
       ELSE IF text[i] = "\n" THEN FALSE
       ELSE JsonScan(text, i + 1, TRUE, depth)
  ELSE IF text[i] = "\"" THEN depth > 0 /\ JsonScan(text, i + 1, TRUE, depth)
  ELSE IF text[i] = "{" THEN depth = 0 /\ i = 1 /\ JsonScan(text, i + 1, FALSE, 1)
  ELSE IF text[i] = "}" THEN depth = 1 /\ i = Len(text)
  ELSE IF text[i] \in {": ", ", ", "false", "true", "\"status\"", "\"success\"", "\"error\"",
                       "\"traceback\"", "\"result\""}
  THEN depth > 0 /\ JsonScan(text, i + 1, FALSE, depth)
  ELSE FALSE

JsonParseable(text) == JsonScan(text, 1, FALSE, 0)

OrchRecord(op, mcp_config, run, close, eff) ==
  [op |-> op, d |-> mcp_config, run |-> run, close |-> close,
   outcome |-> eff.outcome, exc |-> eff.exc, result |-> eff.result, open |-> eff.open]

OrchStep(op, mcp_config, run, close, eff) ==
  /\ calls' = calls + 1
  /\ open_sessions' = open_sessions + eff.open
  /\ last' = OrchRecord(op, mcp_config, run, close, eff)
  /\ UNCHANGED <<WORK_DIR, now, files, dirs, synthesized>>
  /\ UNCHANGED <<discovered, process_vars>>

Generate ==
  /\ calls = 0
  /\ \E mcp_config \in Descriptors, run \in AgentRuns, close \in CloseOutcomes :
       OrchStep("generate", mcp_config, run, close,
                generate_workflows(mcp_config, run, close))

GenerateFlows ==
  /\ calls = 0
  /\ \E mcp_config \in Descriptors, run \in AgentRuns, close \in CloseOutcomes :
       OrchStep("generate_flows_for_mcp", mcp_config, run, close,
                generate_flows_for_mcp(mcp_config, run, close))

NextOrch == Generate \/ GenerateFlows

SpecOrch == Init /\ [][NextOrch]_vars

\* ------------------------------------------ workflow synthesis by tool bucket

\* raw tool names of the create, read, query and other buckets; Add_doc is a
\* create tool only through lower()
Add_doc == <<"Add", "_", "doc">>
search_web == <<"search", "_", "web">>
ping == <<"ping">>
BucketToolNames == {add_item, Add_doc, get_item, search_docs, ping}

\* a listing of n tools that runs through the buckets in turn
CycleOrder == <<add_item, get_item, search_docs, ping, Add_doc, search_web>>
LongListing(n) == [i \in 1..n |-> [name |-> CycleOrder[((i - 1) % 6) + 1]]]

\* every short listing, and one listing of each greater length (search_web
\* is listed by the long ones only)
BucketListings ==
  {[i \in DOMAIN l |-> [name |-> l[i]]] : l \in SeqsUpTo(BucketToolNames, MaxBucketTools)}
  \cup {LongListing(n) : n \in (MaxBucketTools + 1)..MaxLongTools}

BucketService ==
  [name |-> Some(<<"svc">>), command |-> Some(<<"python">>), args |-> Some(<<<<"server.py">>>>)]

\* the file system as one successful discovery of the service leaves it
InitBuckets ==
  /\ WORK_DIR = Some(<<"/work">>)
  /\ now = 0
  /\ calls = 0
  /\ open_sessions = 0
  /\ last = [op |-> "init"]
  /\ synthesized = {}
  /\ discovered = {}
  /\ NoProcesses
  /\ \E listing \in BucketListings :
       \E eff \in {merged_phase1_2_list_mcp_tools_tool(
                     BucketService, FALSE,
                     [fault |-> "none", close |-> "closed", listing |-> listing],
                     0, Some(<<"/work">>), <<>>, {})} :
         /\ files = eff.files
         /\ dirs = eff.dirs

\* create_workflows on the tools file
SynthesizeBuckets == calls = 0 /\ CreateWorkflowsWith(DOMAIN files, {"none"})

NextBuckets == SynthesizeBuckets

SpecBuckets == InitBuckets /\ [][NextBuckets]_vars

\* ------------------------------------------- agent configs from any workflows

\* workflow files as the schema tools or a user may have left them in one
\* workflows directory: several may name the same agent
AgentNames == {<<"svc", "_", "crud", "_", "agent">>, <<"svc", "_", "general", "_", "agent">>}

ToolSequences ==
  {<<PrefixedName(<<"svc">>, add_item)>>, <<PrefixedName(<<"svc">>, get_item)>>}

AnyWorkflow(k, agent_config_name, tool_sequence) ==
  [workflow_name |-> <<"svc", "_", "w", ToString(k), "_", "workflow">>,
   description |-> <<"A workflow">>,
   agent_config_name |-> agent_config_name,
   input_prompt |-> <<"{{task_description}}">>,
   templated_args |-> <<>>,
   tool_sequence |-> tool_sequence,
   domain |-> None]

AgentsProject == <<"/work", "/", "svc_project">>

AgentsWorkflowsDir == AgentsProject \o <<"/", "workflows">>

AgentsWorkflowFile(k) ==
  WorkflowFile(AgentsWorkflowsDir, AnyWorkflow(k, <<>>, <<>>))

\* the directory holds any of the workflow files, each a workflow or a text
\* that is not JSON
InitAgents ==
  /\ WORK_DIR = Some(<<"/work">>)
  /\ now = 0
  /\ calls = 0
  /\ open_sessions = 0
  /\ last = [op |-> "init"]
  /\ synthesized = {}
  /\ discovered = {}
  /\ NoProcesses
  /\ dirs = makedirs({}, AgentsWorkflowsDir)
  /\ \E present \in SUBSET (1..MaxWorkflowFiles) :
       \E chosen \in [present -> (AgentNames \X ToolSequences) \cup {<<>>}] :
         files = [f \in {AgentsWorkflowFile(k) : k \in present} |->
                    LET k == CHOOSE j \in present : f = AgentsWorkflowFile(j)
                    IN IF chosen[k] = <<>> THEN Unparseable
                       ELSE json_dump(AnyWorkflow(k, chosen[k][1], chosen[k][2]), WorkflowKeys)]

\* create_agent_configs on the directory, the files globbed in any order
DeriveAgents == calls = 0 /\ CreateAgentConfigs

NextAgents == DeriveAgents

SpecAgents == InitAgents /\ [][NextAgents]_vars

\* ------------------------------------- result extraction (delegating tier)

WorkflowsMarker == "Workflows written to "
AgentConfigsMarker == "Agent configs written to "

\* re.search(marker + r"([^\n]+)", text).group(1): the leftmost place where
\* the marker is followed by at least one character other than a line break,
\* and the run of such characters after it; None when there is no such place
re_search_group(text, marker) ==
  LET starts == {i \in 1..(Len(text) - 1) : text[i] = marker /\ text[i + 1] # "\n"}
  IN IF starts = {} THEN None
     ELSE LET i == Min(starts)
              ends == {j \in (i + 1)..Len(text) :
                         \A k \in (i + 1)..j : text[k] # "\n"}
          IN Some(SubSeq(text, i + 1, CHOOSE j \in ends : \A k \in ends : k <= j))

\* str.strip(): leading and trailing whitespace removed
RECURSIVE strip(_)
strip(str) ==
  IF str = <<>> THEN <<>>
  ELSE IF Head(str) = " " THEN strip(Tail(str))
  ELSE IF str[Len(str)] = " " THEN strip(SubSeq(str, 1, Len(str) - 1))
  ELSE str

\* os.path.dirname: the text up to the last separator, trailing separators
\* dropped unless it is the root
os_path_dirname(p) ==
  LET seps == {i \in DOMAIN p : p[i] = "/"}
  IN IF seps = {} THEN <<>>
     ELSE IF seps = {1} THEN <<"/">>
     ELSE SubSeq(p, 1, (CHOOSE i \in seps : \A j \in seps : j <= i) - 1)

\* os.path.join(a, b) for a relative b
os_path_join(a, b) ==
  IF a = <<>> \/ a[Len(a)] = "/" THEN a \o b ELSE a \o <<"/">> \o b

\* phase2.py, workflow designs: the marked path, else a default next to the
\* tools file named after tools_data['mcp_name']
_extract_file_path_from_response(workflow_designs, tools_file_path, tools_data) ==
  LET path_match == re_search_group(workflow_designs, WorkflowsMarker) IN
  IF ~IsNone(path_match)
  THEN [raised |-> FALSE, exc |-> NoExc, value |-> strip(Val(path_match))]
  ELSE IF "mcp_name" \notin DOMAIN tools_data
  THEN [raised |-> TRUE, exc |-> KeyError("mcp_name"), value |-> <<>>]
  ELSE [raised |-> FALSE, exc |-> NoExc,
        value |-> os_path_join(os_path_dirname(tools_file_path),
                               <<"workflow_designs_">> \o Str(tools_data["mcp_name"])
                                 \o <<".json">>)]

\* phase2.py, agent configs: the marked path, else agent_configs next to the
\* designs file
_extract_configs_dir_from_response(agent_configs, designs_file_path) ==
  LET path_match == re_search_group(agent_configs, AgentConfigsMarker) IN
  IF ~IsNone(path_match)
  THEN [raised |-> FALSE, exc |-> NoExc, value |-> strip(Val(path_match))]
  ELSE [raised |-> FALSE, exc |-> NoExc,
        value |-> os_path_join(os_path_dirname(designs_file_path), <<"agent_configs">>)]

\* the agent's final reply as text: the marker, blanks, line breaks, a path
Replies(marker) == SeqsUpTo({marker, " ", "\n", "/out"}, MaxReplyLen)

\* the artifact the phase was given: in a project directory, or a bare name
ArtifactPaths == {<<"/work", "/", "svc_project", "/", "artifact.json">>, <<"artifact.json">>}

\* the loaded tools artifact: any JSON object
ToolsDatas ==
  {[mcp_name |-> Some(<<"svc">>), tools |-> <<>>], [mcp_name |-> None], [tools |-> <<>>]}

ExtractRecord(kind, reply, path, tools_data, eff) ==
  [op |-> "extract", kind |-> kind, reply |-> reply, path |-> path,
   tools_data |-> tools_data, raised |-> eff.raised, exc |-> eff.exc, value |-> eff.value]

ExtractStep ==
  /\ calls = 0
  /\ calls' = calls + 1
  /\ UNCHANGED <<WORK_DIR, now, files, dirs, open_sessions, synthesized, discovered, process_vars>>

ExtractDesigns ==
  /\ ExtractStep
  /\ \E reply \in Replies(WorkflowsMarker), path \in ArtifactPaths, tools_data \in ToolsDatas :
       last' = ExtractRecord("designs", reply, path, tools_data,
                             _extract_file_path_from_response(reply, path, tools_data))

ExtractConfigs ==
  /\ ExtractStep
  /\ \E reply \in Replies(AgentConfigsMarker), path \in ArtifactPaths :
       last' = ExtractRecord("configs", reply, path, [mcp_name |-> None],
                             _extract_configs_dir_from_response(reply, path))

NextExtract == ExtractDesigns \/ ExtractConfigs

SpecExtract == Init /\ [][NextExtract]_vars

\* ------------------------------------------------------ repeated discovery

\* discoveries that succeed, of either tier, as the clock advances
DiscoverEnvs == [fault : {"none"}, close : {"closed"}, listing : Listings]

RepeatDiscover == calls < MaxCalls /\ DiscoverWith(Tiers, ValidDescriptors, DiscoverEnvs)

NextDiscover == Tick \/ RepeatDiscover

SpecDiscover == Init /\ [][NextDiscover]_vars

\* ------------------------------------- concurrent installs of one service

\* the text json.dump writes for a descriptor
RECURSIVE ArgsText(_)
ArgsText(args) ==
  IF args = <<>> THEN <<>>
  ELSE Head(args) \o (IF Tail(args) = <<>> THEN <<>> ELSE <<", ">>) \o ArgsText(Tail(args))

DescriptorText(cfg) ==
  <<"{", "name: ">> \o Str(cfg.name) \o <<", command: ">> \o Str(cfg.command)
    \o <<", args: [">> \o ArgsText(Val(cfg.args)) \o <<"], transport: ">>
    \o Str(cfg.transport) \o <<"}">>

\* open(config_file, 'w'): the file is created or cut to length zero
open_w(fs, path) == write_file(fs, path, <<>>)

\* the with block ends: the buffered text goes to the file in one write at
\* the writer's own position, the start of the file, over whatever the file
\* holds by then
flush_at_start(fs, path, text) ==
  write_file(fs, path, text \o SubSeq(fs[path], Len(text) + 1, Len(fs[path])))

\* install runs for the same service, each in a server process of its own
RaceDescriptors ==
  {[name |-> Some(<<"svc">>), command |-> Some(<<"python">>), args |-> Some(a)] :
     a \in {<<<<"server.py">>>>, <<<<"server.py">>, <<"--debug">>>>}}

InitRace ==
  /\ WORK_DIR = Some(<<"/work">>)
  /\ now = 0
  /\ calls = 0
  /\ files = <<>>
  /\ dirs = {}
  /\ open_sessions = 0
  /\ last = [op |-> "init"]
  /\ synthesized = {}
  /\ discovered = {}
  /\ writers \in [1..MaxWriters -> [pc : {"ready"}, d : RaceDescriptors]]
  /\ environ = [v \in API_KEY_VARS |-> None]
  /\ server_pc = "not_started"
  /\ registered = {}
  /\ delegated_runs = 0

RaceConfigFile == ConfigFile(getenv_WORK_DIR(WORK_DIR), Some(<<"svc">>))

\* the run has connected and listed the tools; it makes mcp_configs and opens
\* the descriptor file for writing
OpenDescriptor ==
  \E p \in DOMAIN writers :
    /\ writers[p].pc = "ready"
    /\ writers' = [writers EXCEPT ![p].pc = "opened"]
    /\ dirs' = makedirs(dirs, parent(RaceConfigFile))
    /\ files' = open_w(files, RaceConfigFile)
    /\ last' = [op |-> "open_descriptor", writer |-> p]
    /\ UNCHANGED <<WORK_DIR, now, calls, open_sessions, synthesized, discovered,
                   environ, server_pc, registered, delegated_runs>>

\* json.dump and the end of the with block, then the run returns success
CloseDescriptor ==
  \E p \in DOMAIN writers :
    /\ writers[p].pc = "opened"
    /\ writers' = [writers EXCEPT ![p].pc = "returned"]
    /\ files' = flush_at_start(files, RaceConfigFile,
                               DescriptorText(MCPConfig(writers[p].d.name, writers[p].d.command,
                                                        writers[p].d.args)))
    /\ calls' = calls + 1
    /\ last' = [op |-> "close_descriptor", writer |-> p]
    /\ UNCHANGED <<WORK_DIR, now, dirs, open_sessions, synthesized, discovered,
                   environ, server_pc, registered, delegated_runs>>

NextRace == OpenDescriptor \/ CloseDescriptor

SpecRace == InitRace /\ [][NextRace]_vars

\* ------------------------------------- start of the phase tools server

\* os.getenv(var) in a condition: unset and the empty string both count as
\* false
os_getenv(env, var) == env[var]

bool(value) == ~IsNone(value) /\ Val(value) # <<>>

found_keys_present(env) == {var \in API_KEY_VARS : ~IsNone(os_getenv(env, var))}

found_keys(env) == {var \in API_KEY_VARS : bool(os_getenv(env, var))}

PhaseTools ==
  {"phase1_1_install_mcp_tool", "phase1_2_list_mcp_tools_tool",
   "phase2_1_call_workflow_designer_subagent_tool",
   "phase2_2_call_agent_designer_subagent_tool",
   "debug_environment_tool", "debug_schema_import_test"}

\* the tools that hand their work to an LLM subagent
DelegatingTools ==
  {"phase2_1_call_workflow_designer_subagent_tool",
   "phase2_2_call_agent_designer_subagent_tool"}

EnvValues == {None, Some(<<>>), Some(<<"sk-key">>)}

InitStartup ==
  /\ WORK_DIR = Some(<<"/work">>)
  /\ now = 0
  /\ calls = 0
  /\ files = <<>>
  /\ dirs = {}
  /\ open_sessions = 0
  /\ last = [op |-> "init"]
  /\ synthesized = {}
  /\ discovered = {}
  /\ writers = <<>>
  /\ environ \in [API_KEY_VARS -> EnvValues]
  /\ server_pc = "not_started"
  /\ registered = {}
  /\ delegated_runs = 0

startup_unchanged ==
  UNCHANGED <<WORK_DIR, now, files, dirs, open_sessions, synthesized, discovered,
              writers, environ>>

\* the module is loaded: the key check, then sys.exit(1) or on to the imports
CheckApiKeys ==
  /\ server_pc = "not_started"
  /\ server_pc' = IF found_keys(environ) = {} THEN "exited" ELSE "checked"
  /\ last' = [op |-> "check_api_keys", found |-> found_keys(environ)]
  /\ UNCHANGED <<calls, registered, delegated_runs>>
  /\ startup_unchanged

\* the imports, the FastMCP app and the six app.tool() registrations
RegisterTools ==
  /\ server_pc = "checked"
  /\ server_pc' = "registered"
  /\ registered' = PhaseTools
  /\ last' = [op |-> "register_tools"]
  /\ UNCHANGED <<calls, delegated_runs>>
  /\ startup_unchanged

\* main(): app.run()
RunApp ==
  /\ server_pc = "registered"
  /\ server_pc' = "serving"
  /\ last' = [op |-> "run"]
  /\ UNCHANGED <<calls, registered, delegated_runs>>
  /\ startup_unchanged

\* a client calls one of the registered tools
CallPhaseTool ==
  /\ server_pc = "serving"
  /\ calls < MaxCalls
  /\ \E tool \in registered :
       /\ delegated_runs' = IF tool \in DelegatingTools THEN delegated_runs + 1
                            ELSE delegated_runs
       /\ last' = [op |-> "call_tool", tool |-> tool]
  /\ calls' = calls + 1
  /\ UNCHANGED <<server_pc, registered>>
  /\ startup_unchanged

NextStartup == CheckApiKeys \/ RegisterTools \/ RunApp \/ CallPhaseTool

SpecStartup == InitStartup /\ [][NextStartup]_vars

\* ------------------------------------------- classification of listed tools

\* raw tool names: one keyword, two keywords of different buckets, none, an
\* upper-case keyword, and a name with a double underscore of its own
get_add == <<"get", "_", "add">>
add__x == <<"add", "_", "_", "x">>
ClassifyRawNames == {add_item, get_item, search_docs, ping, Add_doc, get_add, add__x}

\* service names, two of them holding a keyword
ClassifyServices == {<<"svc">>, <<"add">>, <<"my", "_", "get">>}

\* phase 1.2 namespaces the listing, phase 2.1 groups the namespaced tools
Classify ==
  /\ calls = 0
  /\ \E service_name \in ClassifyServices,
        raw \in SeqsUpTo(ClassifyRawNames, MaxClassified) :
       LET tools == DiscoveredTools(Some(service_name), [i \in DOMAIN raw |-> [name |-> raw[i]]])
       IN last' = [op |-> "classify", service_name |-> service_name, raw |-> raw,
                   tools |-> tools, groups |-> tool_groups(tools)]
  /\ calls' = calls + 1
  /\ UNCHANGED <<WORK_DIR, now, files, dirs, open_sessions, synthesized, discovered, process_vars>>

NextClassify == Classify

SpecClassify == Init /\ [][NextClassify]_vars

\* --------------------------------- one project through the rule-based tools

\* service names without and with underscores, one ending in an underscore
ProjectServices ==
  {<<"svc">>, <<"my", "_", "svc">>, <<"a", "_", "b", "_", "c">>, <<"a", "_">>}

\* the file system as one successful discovery of a service leaves it
InitProject ==
  /\ WORK_DIR = Some(<<"/work">>)
  /\ now = 0
  /\ calls = 0
  /\ open_sessions = 0
  /\ last = [op |-> "init"]
  /\ synthesized = {}
  /\ discovered = {}
  /\ NoProcesses
  /\ \E service_name \in ProjectServices, listing \in Listings :
       \E eff \in {merged_phase1_2_list_mcp_tools_tool(
                     [name |-> Some(service_name), command |-> Some(<<"python">>),
                      args |-> Some(<<<<"server.py">>>>)],
                     FALSE, [fault |-> "none", close |-> "closed", listing |-> listing],
                     0, Some(<<"/work">>), <<>>, {})} :
         /\ files = eff.files
         /\ dirs = eff.dirs

\* create_workflows on any file of the project
SynthesizeProject == CreateWorkflowsWith(DOMAIN files, {"none"})

\* create_agent_configs on any directory, the files globbed in any order
DeriveProjectAgents == CreateAgentConfigs

NextProject == SynthesizeProject \/ DeriveProjectAgents

SpecProject == InitProject /\ [][NextProject]_vars

\* ------------------------------------------- the agent's run of the phases

\* the four phase tools of the merged server, in the order the system prompt
\* asks for
MergedPhaseTools ==
  <<"phase1_1_install_mcp_tool", "phase1_2_list_mcp_tools_tool",
    "phase2_1_create_workflow_configs", "phase2_2_create_agent_configs">>

\* what the agent did with each of them during agent.run: the status the tool
\* returned, or skipped when the agent did not call it
PhaseLogs == [1..Len(MergedPhaseTools) -> {"success", "error", "skipped"}]

\* the agent's final text
FinalTexts ==
  {<<"Done.">>,
   <<"project", "_", "complete", ": true">>,
   <<"No ", "configs", "_", "directory", " was returned.">>,
   <<"Agent configs are in the ", "configs", "_", "directory", " /work/svc_project/agents">>}

\* generate_workflows around an agent that ran the phases as logged
GenerateRun ==
  /\ calls = 0
  /\ \E mcp_config \in ValidDescriptors, phases \in PhaseLogs, text \in FinalTexts,
        close \in CloseOutcomes :
       OrchStep("generate_run", mcp_config,
                [kind |-> "transcript", transcript |-> text, held |-> 1, phases |-> phases],
                close,
                generate_workflows(mcp_config,
                                   [kind |-> "transcript", transcript |-> text, held |-> 1],
                                   close))

NextRun == GenerateRun

SpecRun == Init /\ [][NextRun]_vars

\* ------------------------------------------ installs of one service, repeated

\* install_service for the same name with either argument list, in every
\* environment, one call after the other
Reinstall == calls < MaxCalls /\ InstallWith(Tiers, RaceDescriptors, FaultEnvs)

NextReinstall == Reinstall

SpecReinstall == Init /\ [][NextReinstall]_vars

\* ------------------------------- the writers the subagents call (schema tools)

\* write_workflow_designs_file: the directory is made, the designs are
\* written, and the result's message names the file
write_workflow_designs_file(workflows, file_path, mcp_name, fault, fs, ds) ==
  IF fault = "write"
  THEN [result |-> [status |-> "error", error |-> StrExc(WriteExc),
                    traceback |-> format_exc(WriteExc), file_path |-> file_path],
        files |-> fs, dirs |-> makedirs(ds, parent(file_path))]
  ELSE [result |-> [status |-> "success", file_path |-> file_path,
                    workflow_count |-> Len(workflows),
                    message |-> <<"Workflows written to ">> \o file_path],
        files |-> write_file(fs, file_path, workflows),
        dirs |-> makedirs(ds, parent(file_path))]

\* write_agent_configs_directory: one agent config written as
\* <directory_path>/<agent_name>.json, and the result's message names the file
write_agent_configs_directory(agent_name, mcp_names, system_prompt, allowed_tools, directory_path, fault, fs, ds) ==
  LET config_data == [agent_name |-> agent_name, mcp_names |-> mcp_names,
                      system_prompt |-> system_prompt, allowed_tools |-> allowed_tools,
                      model |-> <<"gpt-5-mini">>, provider |-> <<"openai">>, max_steps |-> 20]
      file_path == os_path_join(directory_path, agent_name \o <<".json">>)
  IN IF fault = "write"
     THEN [result |-> [status |-> "error", error |-> StrExc(WriteExc),
                       traceback |-> format_exc(WriteExc), directory_path |-> directory_path],
           files |-> fs, dirs |-> makedirs(ds, directory_path)]
     ELSE [result |-> [status |-> "success", directory_path |-> directory_path,
                       file_path |-> file_path, agent_name |-> agent_name,
                       message |-> <<"Agent config written to ">> \o file_path],
           files |-> write_file(fs, file_path, json_dump(config_data, AgentKeys)),
           dirs |-> makedirs(ds, directory_path)]

\* where a subagent may write: next to the tools file, or elsewhere
DesignsPaths ==
  {<<"/work", "/", "svc_project", "/", "workflow_designs_svc.json">>,
   <<"/out", "/", "designs.json">>}

ConfigsDirectories ==
  {<<"/work", "/", "svc_project", "/", "agent_configs">>, <<"/out", "/", "agents">>}

ProtocolToolsFile == <<"/work", "/", "svc_project", "/", "mcp_tools_svc.json">>

\* one writer call and the extraction from a reply that is the writer's
\* message (the error text when the writer failed)
ProtocolStep(kind, written, eff, extracted) ==
  /\ calls < MaxCalls
  /\ calls' = calls + 1
  /\ files' = eff.files
  /\ dirs' = eff.dirs
  /\ last' = [op |-> "write_and_extract", kind |-> kind, written |-> written,
              result |-> eff.result,
              reply |-> IF eff.result.status = "success" THEN eff.result.message
                        ELSE eff.result.error,
              raised |-> extracted.raised, exc |-> extracted.exc, value |-> extracted.value]
  /\ UNCHANGED <<WORK_DIR, now, open_sessions, synthesized, discovered, process_vars>>

\* phase 2.1 of the delegating tier: the workflow designer writes the designs
WriteDesigns ==
  \E file_path \in DesignsPaths, n \in 0..1, fault \in {"none", "write"} :
    \E eff \in {write_workflow_designs_file(
                  [i \in 1..n |-> general_workflow(<<"svc">>, <<>>)], file_path, <<"svc">>,
                  fault, files, dirs)} :
      ProtocolStep("designs", file_path, eff,
                   _extract_file_path_from_response(
                     IF eff.result.status = "success" THEN eff.result.message
                     ELSE eff.result.error,
                     ProtocolToolsFile, [mcp_name |-> Some(<<"svc">>), tools |-> <<>>]))

\* phase 2.2 of the delegating tier: the agent designer writes an agent config
WriteConfigs ==
  \E directory_path \in ConfigsDirectories, designs_file_path \in DesignsPaths,
     agent_name \in {<<"svc", "_", "general", "_", "agent">>, <<"svc", "_", "crud", "_", "agent">>},
     fault \in {"none", "write"} :
    \E eff \in {write_agent_configs_directory(
                  agent_name, <<<<"svc">>>>, <<"You are an expert agent.">>, <<>>,
                  directory_path, fault, files, dirs)} :
      ProtocolStep("configs", directory_path, eff,
                   _extract_configs_dir_from_response(
                     IF eff.result.status = "success" THEN eff.result.message
                     ELSE eff.result.error,
                     designs_file_path))

NextProtocol == WriteDesigns \/ WriteConfigs

SpecProtocol == Init /\ [][NextProtocol]_vars

\* ------------------------------------------------------------------ claims

Phase1Ops == {"install_service", "discover_tools"}

\* the file install_service is to leave behind for the last call's descriptor
ExpectedConfigFile ==
  (IF IsNone(WORK_DIR) THEN DEFAULT_WORK_DIR ELSE Val(WORK_DIR))
  \o <<"/", "mcp_configs", "/">> \o Val(last.d.name) \o <<"_config.json">>

\* the text holds the marker project_complete or the marker configs_directory
HasMarker(t) ==
  \E i \in DOMAIN t :
    /\ i + 2 <= Len(t)
    /\ \/ (t[i] = "project" /\ t[i + 1] = "_" /\ t[i + 2] = "complete")
       \/ (t[i] = "configs" /\ t[i + 1] = "_" /\ t[i + 2] = "directory")

\* the text holds two underscores in a row
HasSeparator(t) == \E i \in DOMAIN t : i + 1 <= Len(t) /\ t[i] = "_" /\ t[i + 1] = "_"

EndsWithUnderscore(t) == t # <<>> /\ t[Len(t)] = "_"

\* C1: for every descriptor missing name, command or args, install_service
\* returns a result with status=error and makes no create_session call.
C1_MissingFieldRejectedBeforeConnecting ==
  (last.op = "install_service" /\ Missing(last.d))
    => (last.outcome = "returned" /\ last.result.status = "error" /\ last.created = 0)

C3_SessionsClosedOnEveryExit ==
  (last.op \in Phase1Ops /\ last.close # "raises_open")
    => (last.open = 0 /\ open_sessions = 0)

\* a discovery whose listing failed after the session was created has
\* returned an error with no session open
C3_Witness ==
  /\ last.op = "discover_tools"
  /\ last.fault = "list_tools"
  /\ last.created = 1
  /\ last.outcome = "returned"
  /\ last.result.status = "error"
  /\ open_sessions = 0

\* C4: generate_workflows calls close_all_sessions in all three outcomes
\* (success, partial, error): when it has ended the client holds no open
\* session, unless close_all_sessions itself raised and left one open; no
\* outcome is returned with a session open.
C4_ClientReleasedInEveryOutcome ==
  (last.op = "generate" /\ last.close # "raises_open")
    => /\ last.open = 0
       /\ open_sessions = 0
       /\ last.outcome = "returned" => last.result.status \in {"success", "partial", "error"}

\* the agent loop raised while the client held a session, and generate
\* returned the error with the session closed
C4_Witness ==
  /\ last.op = "generate"
  /\ last.run.kind = "raises"
  /\ last.run.held = 1
  /\ last.outcome = "returned"
  /\ last.result.status = "error"
  /\ open_sessions = 0

\* C5: no phase 1 operation lets an exception escape: given a complete
\* descriptor, whatever fails (transport, file system, WORK_DIR, closing the
\* session), the operation returns, and with status=error when a step failed.
C5_NoExceptionEscapes ==
  (last.op \in Phase1Ops /\ ~Missing(last.d))
    => /\ last.outcome = "returned"
       /\ (last.fault # "none" \/ CloseRaises(last.close)) => last.result.status = "error"

\* C6: every error result a phase 1 operation returns carries the error
\* message and a traceback string.
C6_ErrorResultsCarryTraceback ==
  (last.op \in Phase1Ops /\ last.outcome = "returned" /\ last.result.status = "error")
    => /\ "error" \in DOMAIN last.result
       /\ "traceback" \in DOMAIN last.result
       /\ last.result.traceback # <<>>

C8_SuccessNeedsPredecessorArtifact ==
  /\ (last.op = "create_workflows" /\ last.result.status = "success")
       => last.path \in DOMAIN files
  /\ (last.op = "create_agent_configs" /\ last.result.status = "success")
       => /\ last.workflows_directory \in dirs
          /\ glob_json(files, last.workflows_directory) # {}

\* C9 as stated: the prefixed names of two distinct raw names differ, and for
\* every raw name without "__" the prefixed name splits on "__" into
\* mcp, the service name and the raw name.
C9_NamespacingSplitsBack ==
  last.op = "namespace"
    => /\ last.raw[1] # last.raw[2] => last.tools[1] # last.tools[2]
       /\ \A i \in DOMAIN last.tools :
            ~HasSeparator(last.raw[i])
              => Split(last.tools[i], <<"_", "_">>)
                   = <<<<"mcp">>, last.service_name, last.raw[i]>>

\* C9 as amended: the prefixed names of two distinct raw names differ, and for
\* every service name that holds no "__" and does not end in "_" and every raw
\* name without "__", the prefixed name splits on "__" into mcp, the service
\* name and the raw name, and extract_mcp_names_from_tools reads the service name.
C9_NamespacingSplitsBackForPlainServiceNames ==
  last.op = "namespace"
    => /\ last.raw[1] # last.raw[2] => last.tools[1] # last.tools[2]
       /\ (~HasSeparator(last.service_name) /\ ~EndsWithUnderscore(last.service_name))
            => /\ \A i \in DOMAIN last.tools :
                    ~HasSeparator(last.raw[i])
                      => Split(last.tools[i], <<"_", "_">>)
                           = <<<<"mcp">>, last.service_name, last.raw[i]>>
               /\ (\E i \in DOMAIN last.tools : ~HasSeparator(last.raw[i]))
                    => last.service_name \in last.mcp_names

\* a service name and two distinct raw names, each holding a single
\* underscore, have been namespaced
C9_Witness ==
  /\ last.op = "namespace"
  /\ last.service_name = <<"a", "_", "a">>
  /\ last.raw = <<<<"a", "_", "a">>, <<"_", "a">>>>
  /\ last.mcp_names = {<<"a", "_", "a">>}

\* C10: any two successful create_workflows calls on tools files with the same
\* service name and the same ordered tool list wrote the same workflow files
\* with the same content, whatever the user_requirements and whatever was
\* called before.
C10_SynthesisIsDeterministic ==
  \A a, b \in synthesized :
    (a.mcp_name = b.mcp_name /\ a.tools = b.tools) => a.emitted = b.emitted

\* two calls with different user_requirements on the same non-empty tool list
\* have both succeeded
C10_Witness ==
  \E a, b \in synthesized :
    /\ a.mcp_name = b.mcp_name
    /\ a.tools = b.tools
    /\ Len(a.tools) = MaxTools
    /\ a.user_requirements # b.user_requirements
    /\ Cardinality(a.emitted) > 1

\* the tools list and the service name a successful create_workflows call read
\* from its tools file, and the tools of one bucket in discovery order
SynthesisDone == last.op = "create_workflows" /\ last.result.status = "success"
InputTools == json_load(files[last.path])["tools"]
InputName == Str(json_load(files[last.path])["mcp_name"])
IsCreate(tool) == Bucket(tool) = "create"
IsRead(tool) == Bucket(tool) = "read"
IsQuery(tool) == Bucket(tool) = "query"
EmittedPath(kind) ==
  last.result.workflows_directory
    \o <<"/">> \o InputName \o <<"_", kind, "_", "workflow", ".json">>
EmittedWorkflow(kind) == json_load(files[EmittedPath(kind)])
ArgNames(workflow) ==
  [i \in DOMAIN workflow["templated_args"] |->
     <<workflow["templated_args"][i].name, workflow["templated_args"][i].required>>]

\* C11: after a successful create_workflows call the CRUD workflow file exists
\* exactly when the tools list has a create-bucket tool and a read-bucket tool;
\* its tool_sequence is then the first two create tools followed by the first
\* two read tools, in discovery order, at most four tools; with no create tool
\* there is no CRUD workflow and the general workflow is still there.
C11_CrudWorkflowEmission ==
  SynthesisDone
    => LET creates == SelectSeq(InputTools, IsCreate)
           reads == SelectSeq(InputTools, IsRead)
       IN /\ EmittedPath("crud") \in DOMAIN files <=> (creates # <<>> /\ reads # <<>>)
          /\ EmittedPath("crud") \in DOMAIN files
               => /\ EmittedWorkflow("crud")["tool_sequence"] = Take(creates, 2) \o Take(reads, 2)
                  /\ Len(EmittedWorkflow("crud")["tool_sequence"]) <= 4
          /\ creates = <<>>
               => /\ EmittedPath("crud") \notin DOMAIN files
                  /\ EmittedPath("general") \in DOMAIN files

\* a CRUD workflow has been written from a list with three create tools and
\* two read tools
C11_Witness ==
  /\ SynthesisDone
  /\ Len(SelectSeq(InputTools, IsCreate)) >= 3
  /\ Len(SelectSeq(InputTools, IsRead)) >= 2
  /\ EmittedPath("crud") \in DOMAIN files
  /\ Len(EmittedWorkflow("crud")["tool_sequence"]) = 4

\* C12: after a successful create_workflows call the query workflow file
\* exists exactly when the tools list has a query-bucket tool; its
\* tool_sequence is then the first min(3, n) query tools in discovery order and
\* its templated args are query (required) and filters (not required).
C12_QueryWorkflowEmission ==
  SynthesisDone
    => LET queries == SelectSeq(InputTools, IsQuery)
       IN /\ EmittedPath("query") \in DOMAIN files <=> queries # <<>>
          /\ EmittedPath("query") \in DOMAIN files
               => /\ EmittedWorkflow("query")["tool_sequence"] = Take(queries, 3)
                  /\ ArgNames(EmittedWorkflow("query"))
                       = << <<<<"query">>, TRUE>>, <<<<"filters">>, FALSE>> >>

\* a query workflow has been written from a list with four query tools, not
\* all the same
C12_Witness ==
  /\ SynthesisDone
  /\ Len(SelectSeq(InputTools, IsQuery)) >= 4
  /\ Cardinality(Range(SelectSeq(InputTools, IsQuery))) > 1
  /\ EmittedPath("query") \in DOMAIN files
  /\ Len(EmittedWorkflow("query")["tool_sequence"]) = 3

\* C13: every successful create_workflows call wrote one general workflow,
\* whatever the tools list (the empty one too); its tool_sequence is the first
\* min(10, n) tools in discovery order, its only templated arg is
\* task_description, no other workflow file of the call is a general one, and
\* workflows_created is the number of files written, between 1 and 3.
C13_GeneralWorkflowAlwaysEmitted ==
  SynthesisDone
    => LET written == {f \in DOMAIN files : parent(f) = last.result.workflows_directory}
       IN /\ EmittedPath("general") \in written
          /\ {f \in written : json_load(files[f])["domain"] = <<"general">>}
               = {EmittedPath("general")}
          /\ EmittedWorkflow("general")["tool_sequence"] = Take(InputTools, 10)
          /\ ArgNames(EmittedWorkflow("general")) = << <<<<"task_description">>, TRUE>> >>
          /\ last.result.workflows_created = Cardinality(written)
          /\ last.result.workflows_created \in 1..3

\* a general workflow has been written from a list of more than ten tools,
\* next to a CRUD and a query workflow
C13_Witness ==
  /\ SynthesisDone
  /\ Len(InputTools) > 10
  /\ Len(EmittedWorkflow("general")["tool_sequence"]) = 10
  /\ last.result.workflows_created = 3

\* the workflows a successful create_agent_configs call loaded, in the order
\* the directory listing gave them
AgentsDone == last.op = "create_agent_configs" /\ last.result.status = "success"
LoadedWorkflows == [i \in DOMAIN last.order |-> json_load(files[last.order[i]])]
AgentFile(agent_name) == last.result.configs_directory \o <<"/">> \o agent_name \o <<".json">>

\* C14: after a successful create_agent_configs call the agents directory
\* holds exactly one file per distinct agent_config_name of the workflows
\* loaded, agents_created is the number of distinct names, and each file holds
\* the config built from the first workflow (in loading order) with that name.
C14_OneAgentPerDistinctName ==
  AgentsDone
    => LET names == {LoadedWorkflows[i]["agent_config_name"] : i \in DOMAIN LoadedWorkflows}
       IN /\ {f \in DOMAIN files : parent(f) = last.result.configs_directory}
               = {AgentFile(n) : n \in names}
          /\ last.result.agents_created = Cardinality(names)
          /\ \A n \in names :
               LET first == Min({i \in DOMAIN LoadedWorkflows :
                                   LoadedWorkflows[i]["agent_config_name"] = n})
                   agent == json_load(files[AgentFile(n)])
               IN /\ agent["agent_name"] = n
                  /\ agent["allowed_tools"] = LoadedWorkflows[first]["tool_sequence"]

\* three workflows were loaded, the first and the last naming the same agent
\* with different tool sequences, and two agent files were written
C14_Witness ==
  /\ AgentsDone
  /\ Len(LoadedWorkflows) = 3
  /\ LoadedWorkflows[1]["agent_config_name"] = LoadedWorkflows[3]["agent_config_name"]
  /\ LoadedWorkflows[1]["agent_config_name"] # LoadedWorkflows[2]["agent_config_name"]
  /\ LoadedWorkflows[1]["tool_sequence"] # LoadedWorkflows[3]["tool_sequence"]
  /\ last.result.agents_created = 2

\* the agent config files: the files of a directory named agents
IsAgentFile(f) == parent(f) # <<>> /\ parent(f)[Len(parent(f))] = "agents"

\* C15: in every agent config file written, mcp_names is, as a set, the set
\* of second segments of the allowed_tools entries split on "__" (the empty
\* set when allowed_tools is empty).
C15_McpNamesDerivedFromAllowedTools ==
  \A f \in DOMAIN files :
    IsAgentFile(f)
      => Range(json_load(files[f])["mcp_names"])
           = extract_mcp_names_from_tools(json_load(files[f])["allowed_tools"])

\* the marker a reply is searched for, and the text that follows its first
\* occurrence up to the end of that line, trimmed
MarkerOf(kind) == IF kind = "designs" THEN WorkflowsMarker ELSE AgentConfigsMarker
HasReplyMarker == \E i \in DOMAIN last.reply : last.reply[i] = MarkerOf(last.kind)
AfterFirstMarker ==
  LET i == Min({k \in DOMAIN last.reply : last.reply[k] = MarkerOf(last.kind)})
      breaks == {k \in (i + 1)..Len(last.reply) : last.reply[k] = "\n"}
  IN strip(SubSeq(last.reply, i + 1,
                  IF breaks = {} THEN Len(last.reply) ELSE Min(breaks) - 1))

\* C16: when the reply contains the marker, extraction returns the text after
\* the marker's first occurrence up to the end of that line, trimmed, and that
\* text is a non-empty path; nothing after the line break and no later
\* marker changes the result.
C16_MarkedPathExtracted ==
  (last.op = "extract" /\ HasReplyMarker)
    => /\ ~last.raised
       /\ last.value = AfterFirstMarker
       /\ last.value # <<>>

\* C17: for a reply without the marker, extraction returns without raising a
\* non-empty path under the directory of the artifact it was given, whatever
\* the tools artifact holds.
C17_FallbackNeverFails ==
  (last.op = "extract" /\ ~HasReplyMarker)
    => /\ ~last.raised
       /\ last.value # <<>>
       /\ Take(last.value, Len(os_path_dirname(last.path))) = os_path_dirname(last.path)
       /\ Len(last.value) > Len(os_path_dirname(last.path))

C19_DescriptorFileIsLastWriters ==
  (\A p \in DOMAIN writers : writers[p].pc = "returned") /\ last.op = "close_descriptor"
    => files[RaceConfigFile]
         = DescriptorText(MCPConfig(writers[last.writer].d.name, writers[last.writer].d.command,
                                    writers[last.writer].d.args))

\* C20 as stated: a server started with none of the credential variables set
\* exits before any tool is registered or called; a server started with at
\* least one of them set does not exit; a delegated phase runs only in a
\* process with a credential variable set.
C20_EagerCheckOfSetVariables ==
  /\ (server_pc # "not_started" /\ found_keys_present(environ) = {})
       => server_pc = "exited" /\ registered = {} /\ calls = 0
  /\ found_keys_present(environ) # {} => server_pc # "exited"
  /\ delegated_runs > 0 => found_keys_present(environ) # {}

\* C20: a server started with no credential variable holding a non-empty
\* value exits before any tool is registered or called; a server started with
\* at least one non-empty credential does not exit; a delegated phase runs
\* only in a process with a non-empty credential.
C20_EagerCheckOfNonEmptyCredentials ==
  /\ (server_pc # "not_started" /\ \A var \in API_KEY_VARS : ~bool(environ[var]))
       => server_pc = "exited" /\ registered = {} /\ calls = 0 /\ delegated_runs = 0
  /\ (\E var \in API_KEY_VARS : bool(environ[var])) => server_pc # "exited"
  /\ delegated_runs > 0 => \E var \in API_KEY_VARS : bool(environ[var])

\* a delegated phase has run in a server whose only credential sits beside
\* an empty one
C20_Witness ==
  /\ delegated_runs > 0
  /\ \E var \in API_KEY_VARS : environ[var] = Some(<<>>)
  /\ Cardinality({var \in API_KEY_VARS : bool(environ[var])}) = 1

\* a server started with only empty credential variables has exited
C20_ExitWitness ==
  /\ server_pc = "exited"
  /\ registered = {}
  /\ \E var \in API_KEY_VARS : environ[var] = Some(<<>>)

\* C21: after a successful create_agent_configs call every agent config file
\* is <project>/agent_configs/<agent_name>.json, <project> being the directory
\* that holds workflows/, and the configs_directory returned is that
\* <project>/agent_configs, the directory the delegated extraction falls back
\* to for a designs file of the same project.
C21_AgentConfigsInAgentConfigsDirectory ==
  (AgentsDone /\ last.workflows_directory = AgentsWorkflowsDir)
    => LET project == parent(last.workflows_directory)
           agent_configs == project \o <<"/", "agent_configs">>
       IN /\ last.result.configs_directory = agent_configs
          /\ last.result.configs_directory
               = _extract_configs_dir_from_response(
                   <<>>, project \o <<"/", "workflow_designs_svc.json">>).value
          /\ \A f \in DOMAIN files :
               parent(f) # last.workflows_directory
                 => f = agent_configs \o <<"/">> \o json_load(files[f])["agent_name"]
                          \o <<".json">>

\* the messages of the read and parse failures the last create_agent_configs
\* call met in its workflows directory
WorkflowFileFailures ==
  LET globbed == glob_json(files, last.workflows_directory)
  IN (IF \E f \in globbed : ~json_valid(files[f]) THEN {StrExc(JSONDecodeError)} ELSE {})
       \cup (IF last.fault = "read" THEN {StrExc(PermissionError(f)) : f \in globbed} ELSE {})

\* C22: when a workflow file of the directory cannot be read or parsed,
\* create_agent_configs returns status error, not success, and the error text
\* is the message of such a failure.
C22_WorkflowFileFailureSurfaces ==
  (last.op = "create_agent_configs" /\ WorkflowFileFailures # {})
    => /\ last.outcome = "returned"
       /\ last.result.status = "error"
       /\ last.result.error \in WorkflowFileFailures

\* a directory with workflow files that parse, loaded first, and one that
\* does not: the call returned the parse error
C22_Witness ==
  /\ last.op = "create_agent_configs"
  /\ Len(last.order) >= 2
  /\ json_valid(files[last.order[1]])
  /\ \E i \in DOMAIN last.order : ~json_valid(files[last.order[i]])
  /\ last.fault = "none"
  /\ last.result.status = "error"
  /\ last.result.error = StrExc(JSONDecodeError)

\* the first bucket, in the order create, read, update, delete, query, with a
\* keyword in the raw tool name, else other
FirstMatchingBucket(raw_name) ==
  LET name == lower(raw_name) IN
  IF AnyIn(name, {"add", "new", "create"}) THEN "create"
  ELSE IF AnyIn(name, {"get", "list", "fetch", "read"}) THEN "read"
  ELSE IF AnyIn(name, {"update", "edit", "modify"}) THEN "update"
  ELSE IF AnyIn(name, {"delete", "remove"}) THEN "delete"
  ELSE IF AnyIn(name, {"query", "search", "find"}) THEN "query"
  ELSE "other"

\* C23: every namespaced tool is in exactly one bucket, the first one with a
\* keyword in its raw name (the namespaced name without mcp__<service>__),
\* whatever the service name, and each bucket lists its tools in discovery
\* order.
C23_FirstMatchPartitionOnRawName ==
  last.op = "classify"
    => \A b \in DOMAIN last.groups :
         last.groups[b]
           = LET members == {i \in DOMAIN last.raw : FirstMatchingBucket(last.raw[i]) = b}
             IN [k \in 1..Cardinality(members) |->
                   last.tools[CHOOSE i \in members :
                                Cardinality({j \in members : j <= i}) = k]]

\* the tools artifact of the project and the service name it records
ProjectToolsFile ==
  CHOOSE f \in DOMAIN files :
    /\ "mcp_name" \in DOMAIN json_load(files[f])
    /\ "tools" \in DOMAIN json_load(files[f])
ProjectArtifact == json_load(files[ProjectToolsFile])
ProjectService == Str(ProjectArtifact["mcp_name"])
ProjectWorkflowsDir == parent(ProjectToolsFile) \o <<"/", "workflows">>
ProjectWorkflows ==
  {json_load(files[f]) : f \in glob_json(files, ProjectWorkflowsDir)}
ProjectAgentsDone == AgentsDone /\ last.workflows_directory = ProjectWorkflowsDir
ProjectAgents ==
  {json_load(files[f]) : f \in glob_json(files, last.result.configs_directory)}

\* C24: the workflow_name of every workflow written for a service is the
\* service name followed by two underscore-delimited segments, so that
\* stripping the last two segments gives the service name, and every agent config create_agent_configs builds from the
\* workflows directory has mcp_names equal to the one-element list of that
\* name.
C24_ServiceNameRoundTrips ==
  /\ \A workflow \in ProjectWorkflows :
       \E kind \in {"crud", "query", "general"} :
         workflow["workflow_name"] = ProjectService \o <<"_", kind, "_", "workflow">>
  /\ ProjectAgentsDone
       => \A agent \in ProjectAgents : agent["mcp_names"] = <<ProjectService>>

\* agent configs have been built for a service whose name has two underscores
C24_Witness ==
  /\ ProjectAgentsDone
  /\ Cardinality({i \in DOMAIN ProjectService : ProjectService[i] = "_"}) = 2
  /\ Cardinality(ProjectAgents) >= 2

\* C25: after a successful create_agent_configs call, loading the workflow
\* files of the directory in any other order would have written the same
\* agent config files with the same content (the capability phrases of a
\* prompt joined in some order of the set).
C25_LoadOrderNotSignificant ==
  AgentsDone
    => LET dir == last.workflows_directory
           globbed == glob_json(files, dir)
           before == [f \in DOMAIN files \ glob_json(files, last.result.configs_directory)
                        |-> files[f]]
       IN \A order \in Orders(globbed) :
            \E hash_order \in Orders(PhrasesIn(dir)) :
              \E eff \in {phase2_2_create_agent_configs(dir, order, hash_order, "none",
                                                        before, dirs)} :
                /\ eff.result = last.result
                /\ eff.files = files

\* C26: generate returns status success only for a run in which the agent
\* called all four phase tools and each of them returned status success.
C26_SuccessOnlyThroughAllPhases ==
  (last.op = "generate_run" /\ last.outcome = "returned" /\ last.result.status = "success")
    => \A p \in DOMAIN last.run.phases : last.run.phases[p] = "success"

\* C27: after a successful create_agent_configs call every workflow file of
\* the directory names an agent whose file <agent_config_name>.json is in the
\* configs_directory returned, with that name as its agent_name.
C27_EveryWorkflowAgentResolved ==
  AgentsDone
    => \A f \in glob_json(files, last.workflows_directory) :
         LET agent_config_name == json_load(files[f])["agent_config_name"]
         IN /\ AgentFile(agent_config_name) \in DOMAIN files
            /\ json_load(files[AgentFile(agent_config_name)])["agent_name"] = agent_config_name

\* two workflow files naming two different agents were loaded and both agents
\* were written
C27_Witness ==
  /\ AgentsDone
  /\ Len(LoadedWorkflows) = 2
  /\ LoadedWorkflows[1]["agent_config_name"] # LoadedWorkflows[2]["agent_config_name"]
  /\ \A i \in 1..2 : AgentFile(LoadedWorkflows[i]["agent_config_name"]) \in DOMAIN files

\* an install call that returned status error because create_session or
\* list_tools failed
InstallFailedConnecting(record) ==
  /\ record.op = "install_service"
  /\ record.outcome = "returned"
  /\ record.result.status = "error"
  /\ record.fault \in {"create_session", "list_tools"}

\* C28: an install_service call that returns status error because session
\* creation or tool listing failed leaves every file as it was: the descriptor
\* file is neither created nor modified, and a descriptor saved by an earlier
\* install keeps its content.
C28_FailedInstallLeavesDescriptors ==
  [][InstallFailedConnecting(last') => files' = files]_vars

\* an install with other arguments failed to connect after an install had
\* saved the descriptor, and the file still holds the saved arguments
C28_Witness ==
  /\ calls >= 2
  /\ InstallFailedConnecting(last)
  /\ ConfigFile(Val(WORK_DIR), last.d.name) \in DOMAIN files
  /\ json_load(files[ConfigFile(Val(WORK_DIR), last.d.name)])["args"] # Val(last.d.args)

\* C29: when a writer succeeded and the reply is its message, the matching
\* extractor finds its marker in the reply and returns the path the writer
\* wrote to: the designs file for write_workflow_designs_file, the directory
\* for write_agent_configs_directory.
C29_WritersAndExtractorsAgree ==
  (last.op = "write_and_extract" /\ last.result.status = "success")
    => /\ ~IsNone(re_search_group(last.reply, MarkerOf(last.kind)))
       /\ ~last.raised
       /\ last.value = last.written

\* the same for the workflow designs alone
ProtocolDesignsAgree ==
  (last.op = "write_and_extract" /\ last.result.status = "success" /\ last.kind = "designs")
    => /\ ~IsNone(re_search_group(last.reply, MarkerOf(last.kind)))
       /\ ~last.raised
       /\ last.value = last.written

\* C30: on one project, after discover, create_workflows and
\* create_agent_configs, no tool name is invented: the artifact's tools list
\* is the list of its schemas' names, every tool_sequence entry of a written
\* workflow is in the artifact's tools list, and every agent config's
\* allowed_tools is the tool_sequence of a written workflow whose
\* agent_config_name is the agent's name.
C30_ToolsFlowWithoutInvention ==
  /\ DOMAIN ProjectArtifact["tools"] = DOMAIN ProjectArtifact["schemas"]
  /\ \A i \in DOMAIN ProjectArtifact["tools"] :
       ProjectArtifact["tools"][i] = ProjectArtifact["schemas"][i]["name"]
  /\ \A workflow \in ProjectWorkflows :
       \A i \in DOMAIN workflow["tool_sequence"] :
         \E j \in DOMAIN ProjectArtifact["tools"] :
           workflow["tool_sequence"][i] = ProjectArtifact["tools"][j]
  /\ ProjectAgentsDone
       => \A agent \in ProjectAgents :
            \E workflow \in ProjectWorkflows :
              /\ workflow["agent_config_name"] = agent["agent_name"]
              /\ agent["allowed_tools"] = workflow["tool_sequence"]

\* reached: two agents of one project, each with tools of the artifact
C30_Witness ==
  /\ ProjectAgentsDone
  /\ Cardinality(ProjectAgents) >= 2
  /\ \A agent \in ProjectAgents : agent["allowed_tools"] # <<>>
  /\ Len(ProjectArtifact["tools"]) >= 2

====
